---- MODULE Spec2Model ----
(***************************************************************************)
(* Window managers of the drift-detection engine: the sliding-baseline     *)
(* feature manager (app/services/feature_monitoring), the anchored         *)
(* baseline manager (app/services/baseline_manager.py) and the LLM         *)
(* baseline manager (app/services/llm_monitoring), each with the           *)
(* ingestion handler that drives it.                                       *)
(*                                                                         *)
(* The database is the record db, one field per table; a table is the      *)
(* sequence of its committed rows in insertion order.  Every handler works *)
(* through its own database session, so a read sees committed rows only.   *)
(* All rows belong to one project.                                         *)
(***************************************************************************)
EXTENDS Integers, Sequences, FiniteSets, TLC

\* ---------------------------------------------------------------- bounds
MaxRows == 6            \* largest row_id an ingestion may produce
MaxBatch == 3           \* rows carried by one ingestion request
MaxBaselineBatch == 3   \* largest configured baseline_batch_size
MaxMonitorBatch == 3    \* largest configured monitor_batch_size
MaxRacingRows == 4      \* largest row_id produced while requests overlap
StoredMinSamples == 2   \* min_samples of the project's stored drift configuration
MaxAlertThreshold == 3  \* largest stored alert_threshold
MaxReports == 1         \* most drift reports stored for a project
MaxTokenLength == 2     \* longest response, in tokens
MaxHistory == 2         \* most ingestions a drawn project has served

\* ------------------------------------------------------------- constants
DEFAULT_BASELINE_BATCH_SIZE == 1000
DEFAULT_MONITOR_BATCH_SIZE == 500
DRIFT_MIN_SAMPLES == 50
DRIFT_ALERT_THRESHOLD == 2

\* Python None held by a nullable integer column
None == -1

VARIABLES
    policy,   \* the window manager the project runs: "sliding", "anchored", "llm"
    db,       \* committed content of the tables
    last,     \* what the most recent handler call saw and returned
    procs     \* position and locals of each concurrently running request

vars == <<policy, db, last, procs>>

Proc == {1, 2}

\* ------------------------------------------------------------- helpers
Abs(x) == IF x < 0 THEN -x ELSE x

Max2(a, b) == IF a >= b THEN a ELSE b

RECURSIVE SeqMax(_)
SeqMax(s) == IF s = <<>> THEN 0 ELSE Max2(Head(s), SeqMax(Tail(s)))

\* select(func.max(row_id)) ... result.scalar() or 0
MaxRowId(rows) == SeqMax(rows)

\* the row_ids current_row_id + 1 .. current_row_id + n given to a batch
NewRowIds(max_row_id, n) == [i \in 1..n |-> max_row_id + i]

\* scalars().first() on a select without ORDER BY: any stored row may come
\* first; the empty result is index 0
FirstIdx(tbl) == IF tbl = <<>> THEN {0} ELSE 1..Len(tbl)

\* truthiness of the row count alone, the size not compared
HasEnough_NoSizeCheck(latest, size) == latest # None /\ latest # 0

\* the row a select returned: tbl[i], or a blank row when it returned none
RowAt(tbl, i) == IF i = 0 THEN [none |-> TRUE] ELSE tbl[i]

\* the UPDATE a commit emits for an object read as seen and now holding new:
\* only the columns whose value was changed are written over the stored row
ApplyUpdate(current, seen, new) ==
    [f \in DOMAIN current |-> IF new[f] # seen[f] THEN new[f] ELSE current[f]]

\* `x and x >= size`: None and 0 are falsy
HasEnough(latest, size) == latest # None /\ latest # 0 /\ latest >= size

\* ---------------------------------------------------------------- rows
StatsRow(f, p) ==
    [latest_feature_end_row |-> f, latest_prediction_end_row |-> p]

ConfigRow(b, m) == [baseline_batch_size |-> b, monitor_batch_size |-> m]

\* FeatureDriftConfig: the columns the alert rule reads
DriftConfigRow(min_samples, alert_threshold) ==
    [min_samples |-> min_samples, alert_threshold |-> alert_threshold]

BaselineRow(fs, fe, ps, pe, t) ==
    [baseline_start_row_feature_input |-> fs,
     baseline_end_row_feature_input |-> fe,
     baseline_start_row_prediction_output |-> ps,
     baseline_end_row_prediction_output |-> pe,
     temp_baseline_batch_size |-> t]

MonitorRow(s, e) ==
    [monitor_start_row_feature_input |-> s, monitor_end_row_feature_input |-> e]

EmptyDb ==
    [FeatureInput |-> <<>>, PredictionOutput |-> <<>>,
     FeatureStats |-> <<>>, FeatureConfig |-> <<>>,
     FeatureBaseline |-> <<>>, FeatureMonitorInfo |-> <<>>,
     FeatureDriftConfig |-> <<>>, FeatureDrift |-> <<>>,
     ProjectDataStats |-> <<>>, ProjectConfig |-> <<>>,
     BaselineInfo |-> <<>>, MonitorInfo |-> <<>>,
     LLMConfig |-> <<>>, LLMMonitor |-> <<>>, LLMDrift |-> <<>>,
     LLMBaseline |-> <<>>, LLMMonitorInfo |-> <<>>,
     FeatureQualityCheck |-> <<>>]

\* =========================================================================
\* Sliding-baseline feature manager
\* (app/services/feature_monitoring/baseline_manager.py)
\* =========================================================================

\* monitor start without the clamp to the row after the baseline
SlidingMonitorStart_NoClamp(baseline_end_row, latest_row, monitor_batch_size) ==
    latest_row - monitor_batch_size + 1

\* monitor_start of _create_or_update_monitor
SlidingMonitorStart(baseline_end_row, latest_row, monitor_batch_size) ==
    Max2(baseline_end_row + 1, latest_row - monitor_batch_size + 1)

\* _create_or_update_monitor: tbl is the FeatureMonitorInfo table, seen the
\* index of the row the select returned (0: none).  project_id is the primary
\* key, so an insert next to an existing row fails; every exception is
\* swallowed by `except: pass`, as is the TypeError of `None > int`.
SlidingMonitorWrite(tbl, seen, baseline_end_row, latest_row, monitor_batch_size) ==
    IF latest_row = None THEN tbl
    ELSE IF latest_row > baseline_end_row
    THEN LET monitor_end == latest_row
             monitor_start == SlidingMonitorStart(baseline_end_row, latest_row,
                                                  monitor_batch_size)
         IN  IF seen # 0 THEN <<MonitorRow(monitor_start, monitor_end)>>
             ELSE IF tbl = <<>> THEN <<MonitorRow(monitor_start, monitor_end)>>
             ELSE tbl
    ELSE tbl

\* the FeatureConfig row create_baseline works with: the stored one, or the
\* default it inserts when none exists
SlidingConfig(d) ==
    IF d.FeatureConfig = <<>>
    THEN <<ConfigRow(DEFAULT_BASELINE_BATCH_SIZE, DEFAULT_MONITOR_BATCH_SIZE)>>
    ELSE d.FeatureConfig

\* start of the most recent block of size rows ending at latest, shifted one
\* row down
RecentBlockStart_OffByOne(latest, size) == latest - size

\* start of the most recent block of size rows ending at latest
RecentBlockStart(latest, size) == latest - size + 1

\* the baseline write of create_baseline, from what its selects returned:
\* st the FeatureStats rows, bi the index of the FeatureBaseline row (0: none)
\* and baseline_info its content as read.
\* kind is "none", "insert", "slide" or "error"; row the row written.
SlidingBaselineDecision(st, cfg, bi, baseline_info) ==
    LET s == st[1]
        baseline_batch_size == cfg.baseline_batch_size
        latest_feature_end_row == s.latest_feature_end_row
        latest_prediction_end_row == s.latest_prediction_end_row
        has_enough_features == HasEnough(latest_feature_end_row, baseline_batch_size)
        has_enough_predictions == HasEnough(latest_prediction_end_row, baseline_batch_size)
        feat_start == IF has_enough_features
                      THEN RecentBlockStart(latest_feature_end_row, baseline_batch_size)
                      ELSE 0
        feat_end == IF has_enough_features THEN latest_feature_end_row ELSE 0
        pred_start == IF has_enough_predictions
                      THEN RecentBlockStart(latest_prediction_end_row, baseline_batch_size)
                      ELSE 0
        pred_end == IF has_enough_predictions THEN latest_prediction_end_row ELSE 0
        none == [kind |-> "none", ret |-> FALSE, row |-> BaselineRow(0, 0, 0, 0, 0)]
    IN  IF ~(has_enough_features \/ has_enough_predictions) THEN none
        ELSE IF bi = 0
        THEN [kind |-> "insert", ret |-> TRUE,
              row |-> BaselineRow(feat_start, feat_end, pred_start, pred_end,
                                  baseline_batch_size)]
        ELSE LET current_baseline_end == baseline_info.baseline_end_row_feature_input
             IN  IF latest_feature_end_row = None
                 THEN [none EXCEPT !.kind = "error"]   \* None >= int: TypeError
                 ELSE IF latest_feature_end_row >= current_baseline_end + baseline_batch_size
                 THEN [kind |-> "slide", ret |-> TRUE,
                       row |-> [baseline_info EXCEPT
                          !.baseline_start_row_feature_input = feat_start,
                          !.baseline_end_row_feature_input = feat_end,
                          !.baseline_start_row_prediction_output =
                              IF has_enough_predictions THEN pred_start ELSE @,
                          !.baseline_end_row_prediction_output =
                              IF has_enough_predictions THEN pred_end ELSE @]]
                 ELSE [none EXCEPT !.ret = TRUE]

\* create_baseline run without interruption on the database d; st is the
\* FeatureStats table as its session sees it, bi the baseline row its select
\* returned.  Yields the database afterwards and the value returned.
SlidingCreateBaseline(d, st, bi) ==
    IF st = <<>> THEN [db |-> d, ret |-> FALSE]
    ELSE
    LET cfgTbl == SlidingConfig(d)
        cfg == cfgTbl[1]
        d0 == [d EXCEPT !.FeatureConfig = cfgTbl]
        dec == SlidingBaselineDecision(st, cfg, bi, RowAt(d.FeatureBaseline, bi))
    IN  CASE dec.kind = "insert" ->
               [db |-> [d0 EXCEPT
                    !.FeatureBaseline = Append(@, dec.row),
                    !.FeatureMonitorInfo =
                        SlidingMonitorWrite(@, Len(@),
                            dec.row.baseline_end_row_feature_input,
                            st[1].latest_feature_end_row,
                            cfg.monitor_batch_size)],
                ret |-> TRUE]
          [] dec.kind = "slide" ->
               [db |-> [d0 EXCEPT !.FeatureBaseline[bi] =
                                      ApplyUpdate(@, d.FeatureBaseline[bi], dec.row)],
                ret |-> TRUE]
          [] OTHER -> [db |-> d0, ret |-> dec.ret]

\* update_monitor_window run without interruption; bi is the baseline row
\* its select returned
SlidingUpdateMonitorWindow(d, bi) ==
    IF bi = 0 \/ d.FeatureStats = <<>> THEN d
    ELSE LET cfgTbl == SlidingConfig(d)
         IN  [d EXCEPT
                !.FeatureConfig = cfgTbl,
                !.FeatureMonitorInfo =
                    SlidingMonitorWrite(@, Len(@),
                        d.FeatureBaseline[bi].baseline_end_row_feature_input,
                        d.FeatureStats[1].latest_feature_end_row,
                        cfgTbl[1].monitor_batch_size)]

\* IngestionService.ingest up to its first commit: the batch's rows and the
\* FeatureStats row, max_row_id being what select(func.max(row_id)) returned
\* and stats what select(FeatureStats) returned
FeatureCommit(d, statsTbl, stats, max_row_id, n) ==
    [d EXCEPT
        !.FeatureInput = @ \o NewRowIds(max_row_id, n),
        ![statsTbl] = IF stats = <<>> THEN <<StatsRow(max_row_id + n, None)>>
                      ELSE <<ApplyUpdate(@[1], stats[1],
                                [stats[1] EXCEPT !.latest_feature_end_row = max_row_id + n])>>]

\* IngestionService.ingest_predictions' final commit: the batch's rows and the
\* FeatureStats row
PredictionCommit(d, statsTbl, stats, max_row_id, n) ==
    [d EXCEPT
        !.PredictionOutput = @ \o NewRowIds(max_row_id, n),
        ![statsTbl] = IF stats = <<>> THEN <<StatsRow(None, max_row_id + n)>>
                      ELSE <<ApplyUpdate(@[1], stats[1],
                                [stats[1] EXCEPT !.latest_prediction_end_row = max_row_id + n])>>]

\* what a handler call saw and did: the operation, the rows it carried, the
\* stats create_baseline read, the database before and after create_baseline,
\* and create_baseline's return value; detection is what became of the drift
\* detection run ("none": not started, "done": ran through, "raised": it
\* raised), raised whether the handler itself ended with an exception,
\* narrative how the call to the narrative service went ("none": not called),
\* trigger what _check_drift_trigger did, windows the monitor windows of the
\* project on which detect_drift has run so far, insert what became of the
\* baseline insert of a create_baseline called on its own ("none": not tried)
CallRecord(op, n, seen, pre, post, ret) ==
    [op |-> op, n |-> n, seen |-> seen, pre |-> pre, post |-> post, ret |-> ret,
     detection |-> "none", raised |-> FALSE, narrative |-> "none",
     trigger |-> [evaluated |-> FALSE], windows |-> <<>>, insert |-> "none"]

\* select ... where row_id.between(start_row, end_row)
RowsBetween(rows, start_row, end_row) ==
    SelectSeq(rows, LAMBDA r : r >= start_row /\ r <= end_row)

\* the result of a get_..._data that found no window row
NoData == [none |-> TRUE]

\* get_baseline_data; bi is the FeatureBaseline row its select returned
GetBaselineData(d, bi) ==
    IF bi = 0 THEN NoData
    ELSE LET baseline_info == d.FeatureBaseline[bi]
         IN  [none |-> FALSE,
              feature_range |-> <<baseline_info.baseline_start_row_feature_input,
                                  baseline_info.baseline_end_row_feature_input>>,
              prediction_range |-> <<baseline_info.baseline_start_row_prediction_output,
                                     baseline_info.baseline_end_row_prediction_output>>,
              feature_data |-> RowsBetween(d.FeatureInput,
                                  baseline_info.baseline_start_row_feature_input,
                                  baseline_info.baseline_end_row_feature_input),
              prediction_data |-> RowsBetween(d.PredictionOutput,
                                  baseline_info.baseline_start_row_prediction_output,
                                  baseline_info.baseline_end_row_prediction_output)]

\* get_monitor_data: the rows of the monitor window and the range they span
GetMonitorData(d) ==
    IF d.FeatureMonitorInfo = <<>> THEN NoData
    ELSE LET monitor_info == d.FeatureMonitorInfo[1]
             feature_rows == RowsBetween(d.FeatureInput,
                                 monitor_info.monitor_start_row_feature_input,
                                 monitor_info.monitor_end_row_feature_input)
         IN  [none |-> FALSE,
              feature_range |->
                  IF feature_rows # <<>>
                  THEN <<feature_rows[1], feature_rows[Len(feature_rows)]>>
                  ELSE <<monitor_info.monitor_start_row_feature_input,
                         monitor_info.monitor_end_row_feature_input>>,
              feature_data |-> feature_rows]

\* min_samples as InputDataDriftMonitor.load_config resolves it
MinSamples(d) ==
    IF d.FeatureDriftConfig = <<>> THEN DRIFT_MIN_SAMPLES
    ELSE d.FeatureDriftConfig[1].min_samples

\* the FeatureDrift row store_results writes for the two windows; the
\* statistics it carries are the subject of RunTests below, here the row
\* keeps the windows and the total_count of its feature_stats
WindowReport(baseline_data, monitor_data) ==
    [baseline_window |-> baseline_data.feature_range,
     current_window |-> monitor_data.feature_range,
     baseline_total_count |-> Len(baseline_data.feature_data),
     current_total_count |-> Len(monitor_data.feature_data)]

\* the drift detection block of ingest: skipped unless both windows exist
\* and hold rows; a run that raises is caught and stores nothing
DetectFeatureDrift(d, baseline_data, monitor_data, fails) ==
    IF baseline_data.none \/ monitor_data.none
    THEN [db |-> d, detection |-> "none"]
    ELSE IF baseline_data.feature_data = <<>> \/ monitor_data.feature_data = <<>>
    THEN [db |-> d, detection |-> "none"]
    ELSE IF fails THEN [db |-> d, detection |-> "raised"]
    ELSE [db |-> [d EXCEPT !.FeatureDrift =
                     Append(@, WindowReport(baseline_data, monitor_data))],
          detection |-> "done"]

\* IngestionService.ingest (feature_monitoring), one request run to completion
Ingest(n) ==
    /\ policy = "sliding"
    /\ MaxRowId(db.FeatureInput) + n <= MaxRows
    /\ LET d1 == FeatureCommit(db, "FeatureStats", db.FeatureStats, MaxRowId(db.FeatureInput), n)
       IN  \E bi \in FirstIdx(d1.FeatureBaseline) :
             LET cb == SlidingCreateBaseline(d1, d1.FeatureStats, bi)
             IN  \E bj, bk \in FirstIdx(cb.db.FeatureBaseline), fails \in BOOLEAN :
                   LET d2 == IF cb.ret THEN SlidingUpdateMonitorWindow(cb.db, bj)
                                       ELSE cb.db
                       dd == DetectFeatureDrift(d2, GetBaselineData(d2, bk),
                                                GetMonitorData(d2), fails)
                   IN  /\ Len(dd.db.FeatureDrift) <= MaxReports
                       /\ db' = dd.db
                       /\ last' = [CallRecord("ingest", n, d1.FeatureStats, d1,
                                              cb.db, cb.ret)
                                      EXCEPT !.detection = dd.detection]
    /\ UNCHANGED <<policy, procs>>

\* IngestionService.ingest_predictions (feature_monitoring), one request run
\* to completion: create_baseline and get_baseline_data run in sessions of
\* their own between the flush and the commit of the request's session.
\* With prediction rows in the baseline the handler builds a
\* PredictionOutputMonitor without the project_id its __init__ requires: the
\* TypeError leaves the handler before its commit, and the session is rolled
\* back.
IngestPredictions(n) ==
    /\ policy = "sliding"
    /\ MaxRowId(db.PredictionOutput) + n <= MaxRows
    /\ \E bi \in FirstIdx(db.FeatureBaseline) :
         LET cb == SlidingCreateBaseline(db, db.FeatureStats, bi)
             rec == CallRecord("ingest_predictions", n, db.FeatureStats,
                               db, cb.db, cb.ret)
         IN  \E bj \in FirstIdx(cb.db.FeatureBaseline) :
               LET baseline_data == GetBaselineData(cb.db, bj)
               IN  IF ~baseline_data.none /\ baseline_data.prediction_data # <<>>
                   THEN /\ db' = cb.db
                        /\ last' = [rec EXCEPT !.detection = "raised",
                                               !.raised = TRUE]
                   ELSE /\ db' = PredictionCommit(cb.db, "FeatureStats",
                                      db.FeatureStats,
                                      MaxRowId(db.PredictionOutput), n)
                        /\ last' = rec
    /\ UNCHANGED <<policy, procs>>

\* =========================================================================
\* Anchored baseline manager (app/services/baseline_manager.py) and its
\* ingestion service (app/services/ingestion_service.py)
\* =========================================================================

\* _create_monitor_info: inserts [baseline_end_row + 1, baseline_end_row +
\* monitor_batch_size] unless a MonitorInfo row exists
AnchoredCreateMonitorInfo(tbl, baseline_end_row, monitor_batch_size) ==
    IF tbl = <<>>
    THEN <<MonitorRow(baseline_end_row + 1, baseline_end_row + monitor_batch_size)>>
    ELSE tbl

\* _update_monitor_info: rewrites the existing MonitorInfo row, if any
AnchoredUpdateMonitorInfo(tbl, baseline_end_row, monitor_batch_size) ==
    IF tbl = <<>> THEN tbl
    ELSE [tbl EXCEPT ![1] =
             MonitorRow(baseline_end_row + 1, baseline_end_row + monitor_batch_size)]

\* an extension that moves the end rows only
AnchoredExtend_KeepStart(baseline_info, has_enough_features, has_enough_predictions, next_baseline_target) ==
    [baseline_info EXCEPT
        !.baseline_end_row_feature_input =
            IF has_enough_features THEN next_baseline_target ELSE @,
        !.baseline_end_row_prediction_output =
            IF has_enough_predictions THEN next_baseline_target ELSE @,
        !.temp_baseline_batch_size = next_baseline_target]

\* the extension of an existing BaselineInfo row (create_baseline, else branch)
AnchoredExtend(baseline_info, has_enough_features, has_enough_predictions, next_baseline_target) ==
    LET current_baseline_end_feature == baseline_info.baseline_end_row_feature_input
        current_baseline_end_prediction == baseline_info.baseline_end_row_prediction_output
    IN  [baseline_info EXCEPT
            !.baseline_start_row_feature_input =
                IF has_enough_features THEN current_baseline_end_feature + 1 ELSE @,
            !.baseline_end_row_feature_input =
                IF has_enough_features THEN next_baseline_target ELSE @,
            !.baseline_start_row_prediction_output =
                IF has_enough_predictions THEN current_baseline_end_prediction + 1 ELSE @,
            !.baseline_end_row_prediction_output =
                IF has_enough_predictions THEN next_baseline_target ELSE @,
            !.temp_baseline_batch_size = next_baseline_target]

\* create_baseline run without interruption on the database d; st is the
\* ProjectDataStats table as its session sees it, bi the BaselineInfo row its
\* select returned (0: none)
AnchoredCreateBaseline(d, st, bi) ==
    IF st = <<>> \/ d.ProjectConfig = <<>> THEN [db |-> d, ret |-> FALSE]
    ELSE
    LET latest_feature_end_row == st[1].latest_feature_end_row
        latest_prediction_end_row == st[1].latest_prediction_end_row
        baseline_batch_size == d.ProjectConfig[1].baseline_batch_size
        monitor_batch_size == d.ProjectConfig[1].monitor_batch_size
    IN  IF bi = 0
        THEN LET has_enough_features ==
                     HasEnough(latest_feature_end_row, baseline_batch_size)
                 has_enough_predictions ==
                     HasEnough(latest_prediction_end_row, baseline_batch_size)
                 feat_start == IF has_enough_features THEN 1 ELSE 0
                 feat_end == IF has_enough_features THEN baseline_batch_size ELSE 0
                 pred_start == IF has_enough_predictions THEN 1 ELSE 0
                 pred_end == IF has_enough_predictions THEN baseline_batch_size ELSE 0
             IN  IF has_enough_features \/ has_enough_predictions
                 THEN [db |-> [d EXCEPT
                          !.BaselineInfo = Append(@,
                              BaselineRow(feat_start, feat_end, pred_start, pred_end,
                                          baseline_batch_size)),
                          !.MonitorInfo = AnchoredCreateMonitorInfo(@,
                              baseline_batch_size, monitor_batch_size)],
                       ret |-> TRUE]
                 ELSE [db |-> d, ret |-> FALSE]
        ELSE LET baseline_info == d.BaselineInfo[bi]
                 temp_baseline_size == baseline_info.temp_baseline_batch_size
                 next_baseline_target == temp_baseline_size + baseline_batch_size
                 has_enough_features ==
                     HasEnough(latest_feature_end_row, next_baseline_target)
                 has_enough_predictions ==
                     HasEnough(latest_prediction_end_row, next_baseline_target)
             IN  IF has_enough_features \/ has_enough_predictions
                 THEN [db |-> [d EXCEPT
                          !.BaselineInfo[bi] = AnchoredExtend(baseline_info,
                              has_enough_features, has_enough_predictions,
                              next_baseline_target),
                          !.MonitorInfo = AnchoredUpdateMonitorInfo(@,
                              next_baseline_target, monitor_batch_size)],
                       ret |-> TRUE]
                 ELSE [db |-> d, ret |-> FALSE]

\* IngestionService.ingest (app/services/ingestion_service.py), one request
\* run to completion: the rows and the stats stay pending in the request's
\* session until its only commit, after create_baseline has run
AnchoredIngest(n) ==
    /\ policy = "anchored"
    /\ MaxRowId(db.FeatureInput) + n <= MaxRows
    /\ \E bi \in FirstIdx(db.BaselineInfo) :
         LET cb == AnchoredCreateBaseline(db, db.ProjectDataStats, bi)
         IN  /\ db' = FeatureCommit(cb.db, "ProjectDataStats", db.ProjectDataStats,
                                    MaxRowId(db.FeatureInput), n)
             /\ last' = CallRecord("ingest", n, db.ProjectDataStats,
                                   db, cb.db, cb.ret)
    /\ UNCHANGED <<policy, procs>>

\* IngestionService.ingest_predictions (app/services/ingestion_service.py)
AnchoredIngestPredictions(n) ==
    /\ policy = "anchored"
    /\ MaxRowId(db.PredictionOutput) + n <= MaxRows
    /\ \E bi \in FirstIdx(db.BaselineInfo) :
         LET cb == AnchoredCreateBaseline(db, db.ProjectDataStats, bi)
         IN  /\ db' = PredictionCommit(cb.db, "ProjectDataStats", db.ProjectDataStats,
                                       MaxRowId(db.PredictionOutput), n)
             /\ last' = CallRecord("ingest_predictions", n, db.ProjectDataStats,
                                   db, cb.db, cb.ret)
    /\ UNCHANGED <<policy, procs>>

\* =========================================================================
\* LLM baseline manager (app/services/llm_monitoring/llm_baseline_manager.py)
\* and LLMMonitorService (llm_monitor_service.py), with LLMDriftDetector
\* (llm_drift_detector.py).  An average is the quotient num / den; thresholds
\* are in percent.  current_avg_token_length of LLMMonitorInfo is not
\* represented.
\* =========================================================================

TOKEN_DRIFT_THRESHOLD_PCT == 15

\* an LLMMonitor row: the columns row_id and response_token_length
LLMRecord(row_id, response_token_length) ==
    [row_id |-> row_id, response_token_length |-> response_token_length]

\* the row_id column of a table of LLMMonitor rows
RowIds(rows) == [i \in 1..Len(rows) |-> rows[i].row_id]

LLMConfigRow(b, m) ==
    [baseline_batch_size |-> b, monitor_batch_size |-> m,
     token_drift_threshold_pct |-> TOKEN_DRIFT_THRESHOLD_PCT]

LLMBaselineRow(s, e) ==
    [baseline_start_row |-> s, baseline_end_row |-> e,
     avg_response_token_length |-> [num |-> 0, den |-> 1]]

RECURSIVE SumTokens(_)
SumTokens(records) ==
    IF records = <<>> THEN 0
    ELSE records[1].response_token_length + SumTokens(Tail(records))

\* the LLMMonitor rows with row_id between start_row and end_row
RecordsBetween(rows, start_row, end_row) ==
    SelectSeq(rows, LAMBDA r : r.row_id >= start_row /\ r.row_id <= end_row)

\* _calculate_avg_tokens: 0.0 without rows
CalculateAvgTokens(rows, start_row, end_row) ==
    LET records == RecordsBetween(rows, start_row, end_row)
    IN  IF records = <<>> THEN [num |-> 0, den |-> 1]
        ELSE [num |-> SumTokens(records), den |-> Len(records)]

\* the baseline row create_baseline commits: the average is taken over the
\* baseline_batch_size rows that end the new range
LLMBaselineWrite(cfg, dec, rows) ==
    [dec.row EXCEPT !.avg_response_token_length =
        CalculateAvgTokens(rows,
                           dec.row.baseline_end_row - cfg.baseline_batch_size + 1,
                           dec.row.baseline_end_row)]

LLMMonitorRow(s, e) == [monitor_start_row |-> s, monitor_end_row |-> e]

\* _get_next_row_id: the row after the one with the largest row_id, or 1
GetNextRowId(rows) == IF rows = <<>> THEN 1 ELSE MaxRowId(RowIds(rows)) + 1

\* _create_monitor_info: inserts the first window unless the select (index
\* mi, 0: none) returned an LLMMonitorInfo row
LLMCreateMonitorInfo(tbl, mi, baseline_end_row, monitor_batch_size) ==
    IF mi = 0
    THEN Append(tbl, LLMMonitorRow(baseline_end_row + 1,
                                   baseline_end_row + monitor_batch_size))
    ELSE tbl

\* _update_monitor_info: rewrites the row the select returned, if any
LLMUpdateMonitorInfo(tbl, mi, baseline_end_row, monitor_batch_size) ==
    IF mi = 0 THEN tbl
    ELSE [tbl EXCEPT ![mi] = LLMMonitorRow(baseline_end_row + 1,
                                           baseline_end_row + monitor_batch_size)]

\* the baseline extended as soon as one row follows its end
LLMBaselineDecision_EarlyExtend(cfg, latest_row, bi, baseline_info) ==
    LET baseline_batch_size == cfg.baseline_batch_size
    IN  IF bi = 0
        THEN IF latest_row >= baseline_batch_size
             THEN [kind |-> "insert", row |-> LLMBaselineRow(1, baseline_batch_size)]
             ELSE [kind |-> "none", row |-> LLMBaselineRow(0, 0)]
        ELSE LET current_baseline_end == baseline_info.baseline_end_row
                 next_baseline_target == current_baseline_end + baseline_batch_size
             IN  IF latest_row >= current_baseline_end + 1
                 THEN [kind |-> "extend",
                       row |-> [baseline_info EXCEPT
                                   !.baseline_end_row = next_baseline_target]]
                 ELSE [kind |-> "none", row |-> LLMBaselineRow(0, 0)]

\* the baseline write of LLMBaselineManager.create_baseline from what its
\* selects returned: latest_row the largest row_id, bi the LLMBaseline row
\* (0: none) and baseline_info its content as read.
\* kind is "none", "insert" or "extend".
LLMBaselineDecision(cfg, latest_row, bi, baseline_info) ==
    LET baseline_batch_size == cfg.baseline_batch_size
    IN  IF bi = 0
        THEN IF latest_row >= baseline_batch_size
             THEN [kind |-> "insert", row |-> LLMBaselineRow(1, baseline_batch_size)]
             ELSE [kind |-> "none", row |-> LLMBaselineRow(0, 0)]
        ELSE LET current_baseline_end == baseline_info.baseline_end_row
                 next_baseline_target == current_baseline_end + baseline_batch_size
             IN  IF latest_row >= next_baseline_target
                 THEN [kind |-> "extend",
                       row |-> [baseline_info EXCEPT
                                   !.baseline_end_row = next_baseline_target]]
                 ELSE [kind |-> "none", row |-> LLMBaselineRow(0, 0)]

\* LLMBaselineManager.create_baseline run without interruption; bi and mi are
\* the LLMBaseline and LLMMonitorInfo rows its selects returned
LLMCreateBaseline(d, bi, mi) ==
    IF d.LLMConfig = <<>> \/ d.LLMMonitor = <<>> THEN [db |-> d, ret |-> FALSE]
    ELSE
    LET cfg == d.LLMConfig[1]
        dec == LLMBaselineDecision(cfg, MaxRowId(RowIds(d.LLMMonitor)), bi,
                                   RowAt(d.LLMBaseline, bi))
        row == LLMBaselineWrite(cfg, dec, d.LLMMonitor)
    IN  CASE dec.kind = "insert" ->
               [db |-> [d EXCEPT
                    !.LLMBaseline = Append(@, row),
                    !.LLMMonitorInfo = LLMCreateMonitorInfo(@, mi,
                        cfg.baseline_batch_size, cfg.monitor_batch_size)],
                ret |-> TRUE]
          [] dec.kind = "extend" ->
               [db |-> [d EXCEPT
                    !.LLMBaseline[bi] = ApplyUpdate(@, d.LLMBaseline[bi], row),
                    !.LLMMonitorInfo = LLMUpdateMonitorInfo(@, mi,
                        dec.row.baseline_end_row, cfg.monitor_batch_size)],
                ret |-> TRUE]
          [] OTHER -> [db |-> d, ret |-> FALSE]

\* the next window starting on the last row of the one evaluated
UpdateMonitorWindow_Overlap(d, mi, seen) ==
    IF d.LLMConfig = <<>> THEN d
    ELSE LET monitor_size == d.LLMConfig[1].monitor_batch_size
             current_end == seen.monitor_end_row
         IN  [d EXCEPT !.LLMMonitorInfo[mi] =
                 LLMMonitorRow(current_end, current_end + monitor_size)]

\* _update_monitor_window: moves the window on from the monitor_info object
\* the caller holds (row index mi, content seen)
UpdateMonitorWindow(d, mi, seen) ==
    IF d.LLMConfig = <<>> THEN d
    ELSE LET monitor_size == d.LLMConfig[1].monitor_batch_size
             current_end == seen.monitor_end_row
         IN  [d EXCEPT !.LLMMonitorInfo[mi] =
                 LLMMonitorRow(current_end + 1, current_end + monitor_size)]

\* detect_drift found no drift, or ended early
NoDrift == [has_drift |-> FALSE]

\* drift between the averages: |baseline_avg - monitor_avg| / baseline_avg
\* above the threshold
HasDrift(baseline_avg, monitor_avg, threshold_pct) ==
    Abs(baseline_avg.num * monitor_avg.den - monitor_avg.num * baseline_avg.den) * 100
        > threshold_pct * monitor_avg.den * baseline_avg.num

\* LLMDriftDetector.detect_drift in its own session; bi and mi are the
\* LLMBaseline and LLMMonitorInfo rows its selects returned.  It ends with
\* has_drift False without a baseline or monitor info, without rows in the
\* window, when the window's average is 0, and when the division by a
\* baseline average of 0 raises; a drift is stored as an LLMDrift row whose
\* interpretation is not represented.
DetectDrift(d, bi, mi) ==
    IF d.LLMConfig = <<>> \/ bi = 0 \/ mi = 0 THEN [db |-> d, result |-> NoDrift]
    ELSE
    LET baseline_info == d.LLMBaseline[bi]
        monitor_info == d.LLMMonitorInfo[mi]
        baseline_avg == baseline_info.avg_response_token_length
        records == RecordsBetween(d.LLMMonitor, monitor_info.monitor_start_row,
                                  monitor_info.monitor_end_row)
        monitor_avg == [num |-> SumTokens(records), den |-> Len(records)]
    IN  IF records = <<>> \/ monitor_avg.num = 0 \/ baseline_avg.num = 0
        THEN [db |-> d, result |-> NoDrift]
        ELSE IF ~HasDrift(baseline_avg, monitor_avg,
                          d.LLMConfig[1].token_drift_threshold_pct)
        THEN [db |-> d, result |-> NoDrift]
        ELSE [db |-> [d EXCEPT !.LLMDrift = Append(@,
                        [baseline_window |-> <<baseline_info.baseline_start_row,
                                               baseline_info.baseline_end_row>>,
                         monitor_window |-> <<monitor_info.monitor_start_row,
                                              monitor_info.monitor_end_row>>,
                         baseline_avg_tokens |-> baseline_avg,
                         monitor_avg_tokens |-> monitor_avg,
                         has_drift |-> TRUE])],
              result |-> [has_drift |-> TRUE]]

\* the UPDATE a commit issues for an object whose attributes attrs were
\* assigned: it covers the mapped columns, the fields of row
Flush(row, attrs) ==
    [c \in DOMAIN row |-> IF c \in DOMAIN attrs THEN attrs[c] ELSE row[c]]

\* _mark_drift_records: record.has_drift = True on the rows of the window,
\* then commit
MarkDriftRecords(d, start_row, end_row) ==
    [d EXCEPT !.LLMMonitor =
        [i \in 1..Len(@) |->
            IF @[i].row_id >= start_row /\ @[i].row_id <= end_row
            THEN Flush(@[i], [has_drift |-> TRUE])
            ELSE @[i]]]

\* _check_drift_trigger run without interruption; mi is the LLMMonitorInfo
\* row its select returned, bj and mj the rows detect_drift selected
CheckDriftTrigger(d, mi, bj, mj) ==
    IF d.LLMConfig = <<>> \/ mi = 0 \/ d.LLMMonitor = <<>>
    THEN [db |-> d, trigger |-> [evaluated |-> FALSE]]
    ELSE IF MaxRowId(RowIds(d.LLMMonitor)) >= d.LLMMonitorInfo[mi].monitor_end_row
    THEN LET monitor_info == d.LLMMonitorInfo[mi]
             dr == DetectDrift(d, bj, mj)
             d1 == IF dr.result.has_drift
                   THEN MarkDriftRecords(dr.db, monitor_info.monitor_start_row,
                                         monitor_info.monitor_end_row)
                   ELSE dr.db
         IN  [db |-> UpdateMonitorWindow(d1, mi, monitor_info),
              trigger |-> [evaluated |-> TRUE,
                           window |-> <<d.LLMMonitorInfo[mj].monitor_start_row,
                                        d.LLMMonitorInfo[mj].monitor_end_row>>,
                           latest_row |-> MaxRowId(RowIds(d.LLMMonitor)),
                           has_drift |-> dr.result.has_drift]]
    ELSE [db |-> d, trigger |-> [evaluated |-> FALSE]]

TokenLengths == {0, MaxTokenLength}

\* LLMMonitorService.log_interaction, one request run to completion, for a
\* response of response_token_length tokens
LogInteraction(response_token_length) ==
    /\ policy = "llm"
    /\ GetNextRowId(db.LLMMonitor) <= MaxRows
    /\ LET d1 == [db EXCEPT !.LLMMonitor =
                     Append(@, LLMRecord(GetNextRowId(@), response_token_length))]
       IN  \E bi \in FirstIdx(d1.LLMBaseline), mi \in FirstIdx(d1.LLMMonitorInfo) :
             LET cb == LLMCreateBaseline(d1, bi, mi)
             IN  \E mj, mk \in FirstIdx(cb.db.LLMMonitorInfo),
                    bj \in FirstIdx(cb.db.LLMBaseline) :
                   LET cdt == CheckDriftTrigger(cb.db, mj, bj, mk)
                   IN  /\ db' = cdt.db
                       /\ last' = [CallRecord("log_interaction", 1, <<>>, d1,
                                              cb.db, cb.ret)
                                      EXCEPT !.trigger = cdt.trigger,
                                             !.windows =
                                                 IF cdt.trigger.evaluated
                                                 THEN Append(last.windows,
                                                             cdt.trigger.window)
                                                 ELSE last.windows]
    /\ UNCHANGED <<policy, procs>>

\* =========================================================================
\* Requests served one at a time
\* =========================================================================

BaselineSizes == 2..MaxBaselineBatch
MonitorSizes == 1..MaxMonitorBatch

\* an idle request slot: pc is the await the request is suspended at, the
\* other fields are the values its session read so far
IdleProc ==
    [pc |-> "idle", n |-> 0, max_row_id |-> 0, seen |-> <<>>, latest_row |-> 0, bi |-> 0, baseline_info |-> [none |-> TRUE],
     mi |-> 0, monitor_info |-> [none |-> TRUE]]

\* a project with its batch-size configuration stored and nothing ingested
InitDb(pol, b, m) ==
    CASE pol = "sliding" ->
             [EmptyDb EXCEPT
                 !.FeatureConfig = <<ConfigRow(b, m)>>,
                 !.FeatureDriftConfig =
                     <<DriftConfigRow(StoredMinSamples, DRIFT_ALERT_THRESHOLD)>>]
      [] pol = "anchored" -> [EmptyDb EXCEPT !.ProjectConfig = <<ConfigRow(b, m)>>]
      [] pol = "llm" -> [EmptyDb EXCEPT !.LLMConfig = <<LLMConfigRow(b, m)>>]

TokenDriftThresholds == {TOKEN_DRIFT_THRESHOLD_PCT, 50}

\* the configuration with token_drift_threshold updated
WithThreshold(d, threshold_pct) ==
    IF d.LLMConfig = <<>> THEN d
    ELSE [d EXCEPT !.LLMConfig[1].token_drift_threshold_pct = threshold_pct]

Init ==
    /\ policy \in {"sliding", "anchored", "llm"}
    /\ \E b \in BaselineSizes, m \in MonitorSizes, t \in TokenDriftThresholds :
           db = WithThreshold(InitDb(policy, b, m), t)
    /\ last = CallRecord("none", 0, <<>>, db, db, FALSE)
    /\ procs = [p \in Proc |-> IdleProc]

Next ==
    \/ \E n \in 1..MaxBatch : Ingest(n)
    \/ \E n \in 1..MaxBatch : IngestPredictions(n)
    \/ \E n \in 1..MaxBatch : AnchoredIngest(n)
    \/ \E n \in 1..MaxBatch : AnchoredIngestPredictions(n)
    \/ \E response_token_length \in TokenLengths : LogInteraction(response_token_length)

Spec == Init /\ [][Next]_vars

\* =========================================================================
\* Requests served concurrently: every request is a coroutine with its own
\* database session; it is suspended at each awaited statement and other
\* requests of the same project run in between.  One action per awaited
\* statement (or group of adjacent reads) of a feature ingestion and of an
\* LLM interaction.
\* =========================================================================

\* ---- IngestionService.ingest (feature_monitoring)

\* select(func.max(FeatureInput.row_id)) for a batch of n rows
ReadMaxRowId(p, n) ==
    /\ policy = "sliding"
    /\ procs[p].pc = "idle"
    /\ MaxRowId(db.FeatureInput) + n <= MaxRacingRows
    /\ procs' = [procs EXCEPT ![p] = [IdleProc EXCEPT
                    !.pc = "stats", !.n = n,
                    !.max_row_id = MaxRowId(db.FeatureInput)]]
    /\ UNCHANGED <<policy, db, last>>

\* select(FeatureStats): the request will insert the row if there is none
ReadStats(p) ==
    /\ procs[p].pc = "stats"
    /\ procs' = [procs EXCEPT ![p].pc = "commit", ![p].seen = db.FeatureStats]
    /\ UNCHANGED <<policy, db, last>>

\* the commit of the batch's rows and of the stats; inserting a second
\* FeatureStats row violates its primary key, the commit raises and the
\* request fails with nothing stored
CommitBatch(p) ==
    /\ procs[p].pc = "commit"
    /\ IF procs[p].seen = <<>> /\ db.FeatureStats # <<>>
       THEN /\ db' = db
            /\ procs' = [procs EXCEPT ![p] = IdleProc]
       ELSE /\ db' = FeatureCommit(db, "FeatureStats", procs[p].seen,
                                       procs[p].max_row_id, procs[p].n)
            /\ procs' = [procs EXCEPT ![p].pc = "cb_stats"]
    /\ UNCHANGED <<policy, last>>

\* create_baseline: select(FeatureStats)
CbReadStats(p) ==
    /\ procs[p].pc = "cb_stats"
    /\ procs' = [procs EXCEPT ![p].pc = "cb_baseline", ![p].seen = db.FeatureStats]
    /\ UNCHANGED <<policy, db, last>>

\* the baseline write a request will commit, from the values it read
SlidingPending(p) ==
    SlidingBaselineDecision(procs[p].seen, SlidingConfig(db)[1],
                            procs[p].bi, procs[p].baseline_info)

\* create_baseline: select(FeatureBaseline), then the branch taken
CbReadBaseline(p) ==
    /\ procs[p].pc = "cb_baseline"
    /\ \E bi \in FirstIdx(db.FeatureBaseline) :
         LET dec == SlidingBaselineDecision(procs[p].seen, SlidingConfig(db)[1],
                                            bi, RowAt(db.FeatureBaseline, bi))
         IN  procs' = [procs EXCEPT
                 ![p].bi = bi,
                 ![p].baseline_info = RowAt(db.FeatureBaseline, bi),
                 ![p].pc = IF dec.kind \in {"insert", "slide"} THEN "cb_write"
                           ELSE IF dec.ret THEN "um_read" ELSE "idle"]
    /\ UNCHANGED <<policy, db, last>>

\* create_baseline: the commit of the new or of the slid baseline row; the
\* table has no unique constraint on project_id, so the insert succeeds
CbWrite(p) ==
    /\ procs[p].pc = "cb_write"
    /\ LET dec == SlidingPending(p)
       IN  IF dec.kind = "insert"
           THEN /\ db' = [db EXCEPT !.FeatureBaseline = Append(@, dec.row)]
                /\ procs' = [procs EXCEPT ![p].pc = "cb_monitor"]
           ELSE /\ db' = [db EXCEPT !.FeatureBaseline[procs[p].bi] =
                             ApplyUpdate(@, procs[p].baseline_info, dec.row)]
                /\ procs' = [procs EXCEPT ![p].pc = "um_read"]
    /\ UNCHANGED <<policy, last>>

\* create_baseline: _create_or_update_monitor after the insert
CbMonitor(p) ==
    /\ procs[p].pc = "cb_monitor"
    /\ db' = [db EXCEPT !.FeatureMonitorInfo =
                 SlidingMonitorWrite(@, Len(@),
                     SlidingPending(p).row.baseline_end_row_feature_input,
                     procs[p].seen[1].latest_feature_end_row,
                     SlidingConfig(db)[1].monitor_batch_size)]
    /\ procs' = [procs EXCEPT ![p].pc = "um_read"]
    /\ UNCHANGED <<policy, last>>

\* update_monitor_window: select(FeatureBaseline), select(FeatureStats)
UmRead(p) ==
    /\ procs[p].pc = "um_read"
    /\ \E bi \in FirstIdx(db.FeatureBaseline) :
         procs' = [procs EXCEPT
             ![p].bi = bi,
             ![p].baseline_info = RowAt(db.FeatureBaseline, bi),
             ![p].seen = db.FeatureStats,
             ![p].pc = IF bi = 0 THEN "idle" ELSE "um_monitor"]
    /\ UNCHANGED <<policy, db, last>>

\* update_monitor_window: _create_or_update_monitor; the request is then
\* through with the windows
UmMonitor(p) ==
    /\ procs[p].pc = "um_monitor"
    /\ db' = [db EXCEPT !.FeatureMonitorInfo =
                 SlidingMonitorWrite(@, Len(@),
                     procs[p].baseline_info.baseline_end_row_feature_input,
                     procs[p].seen[1].latest_feature_end_row,
                     SlidingConfig(db)[1].monitor_batch_size)]
    /\ procs' = [procs EXCEPT ![p] = IdleProc]
    /\ UNCHANGED <<policy, last>>

\* ---- LLMMonitorService.log_interaction

\* _get_next_row_id
ReadNextRowId(p) ==
    /\ policy = "llm"
    /\ procs[p].pc = "idle"
    /\ GetNextRowId(db.LLMMonitor) <= MaxRacingRows
    /\ procs' = [procs EXCEPT ![p] = [IdleProc EXCEPT
                    !.pc = "li_commit", !.n = 1,
                    !.max_row_id = GetNextRowId(db.LLMMonitor) - 1]]
    /\ UNCHANGED <<policy, db, last>>

\* db.add(llm_record); commit: the table has no unique constraint on
\* (project_id, row_id); overlapping requests carry responses of
\* MaxTokenLength tokens
CommitInteraction(p) ==
    /\ procs[p].pc = "li_commit"
    /\ db' = [db EXCEPT !.LLMMonitor =
                 Append(@, LLMRecord(procs[p].max_row_id + 1, MaxTokenLength))]
    /\ procs' = [procs EXCEPT ![p].pc = "lcb_read"]
    /\ UNCHANGED <<policy, last>>

\* the baseline write a request will commit, from the values it read
LLMPending(p) ==
    LLMBaselineDecision(db.LLMConfig[1], procs[p].latest_row,
                        procs[p].bi, procs[p].baseline_info)

\* LLMBaselineManager.create_baseline: the selects of the latest row and of
\* the baseline, then the branch taken
LcbRead(p) ==
    /\ procs[p].pc = "lcb_read"
    /\ \E bi \in FirstIdx(db.LLMBaseline) :
         LET dec == LLMBaselineDecision(db.LLMConfig[1],
                                        MaxRowId(RowIds(db.LLMMonitor)),
                                        bi, RowAt(db.LLMBaseline, bi))
         IN  procs' = [procs EXCEPT
                 ![p].latest_row = MaxRowId(RowIds(db.LLMMonitor)),
                 ![p].bi = bi,
                 ![p].baseline_info = RowAt(db.LLMBaseline, bi),
                 ![p].pc = IF dec.kind = "none" THEN "cdt_read" ELSE "lcb_write"]
    /\ UNCHANGED <<policy, db, last>>

\* create_baseline: the commit of the new or of the extended baseline row
LcbWrite(p) ==
    /\ procs[p].pc = "lcb_write"
    /\ LET dec == LLMPending(p)
           row == LLMBaselineWrite(db.LLMConfig[1], dec, db.LLMMonitor)
       IN  db' = IF dec.kind = "insert"
                 THEN [db EXCEPT !.LLMBaseline = Append(@, row)]
                 ELSE [db EXCEPT !.LLMBaseline[procs[p].bi] =
                          ApplyUpdate(@, procs[p].baseline_info, row)]
    /\ procs' = [procs EXCEPT ![p].pc = "lcb_monitor"]
    /\ UNCHANGED <<policy, last>>

\* create_baseline: _create_monitor_info after an insert, _update_monitor_info
\* after an extension
LcbMonitor(p) ==
    /\ procs[p].pc = "lcb_monitor"
    /\ \E mi \in FirstIdx(db.LLMMonitorInfo) :
         LET dec == LLMPending(p)
             cfg == db.LLMConfig[1]
         IN  db' = [db EXCEPT !.LLMMonitorInfo =
                       IF dec.kind = "insert"
                       THEN LLMCreateMonitorInfo(@, mi, cfg.baseline_batch_size,
                                                 cfg.monitor_batch_size)
                       ELSE LLMUpdateMonitorInfo(@, mi, dec.row.baseline_end_row,
                                                 cfg.monitor_batch_size)]
    /\ procs' = [procs EXCEPT ![p].pc = "cdt_read"]
    /\ UNCHANGED <<policy, last>>

\* _check_drift_trigger: the selects of the monitor info and of the latest
\* row; a complete window sends the request to detect_drift
CdtRead(p) ==
    /\ procs[p].pc = "cdt_read"
    /\ \E mi \in FirstIdx(db.LLMMonitorInfo) :
         procs' = IF mi # 0 /\ MaxRowId(RowIds(db.LLMMonitor))
                                  >= db.LLMMonitorInfo[mi].monitor_end_row
                  THEN [procs EXCEPT ![p].pc = "cdt_update", ![p].mi = mi,
                                     ![p].monitor_info = db.LLMMonitorInfo[mi]]
                  ELSE [procs EXCEPT ![p] = IdleProc]
    /\ UNCHANGED <<policy, db, last>>

\* _check_drift_trigger from detect_drift on: _mark_drift_records and
\* _update_monitor_window on the monitor_info object read before
CdtUpdate(p) ==
    /\ procs[p].pc = "cdt_update"
    /\ \E bj \in FirstIdx(db.LLMBaseline), mj \in FirstIdx(db.LLMMonitorInfo) :
         LET dr == DetectDrift(db, bj, mj)
             d1 == IF dr.result.has_drift
                   THEN MarkDriftRecords(dr.db, procs[p].monitor_info.monitor_start_row,
                                         procs[p].monitor_info.monitor_end_row)
                   ELSE dr.db
         IN  db' = UpdateMonitorWindow(d1, procs[p].mi, procs[p].monitor_info)
    /\ procs' = [procs EXCEPT ![p] = IdleProc]
    /\ UNCHANGED <<policy, last>>

InitConc ==
    /\ policy \in {"sliding", "llm"}
    /\ \E b \in BaselineSizes, m \in MonitorSizes : db = InitDb(policy, b, m)
    /\ last = CallRecord("none", 0, <<>>, db, db, FALSE)
    /\ procs = [p \in Proc |-> IdleProc]

NextConc ==
    \/ \E p \in Proc, n \in 1..MaxBatch : ReadMaxRowId(p, n)
    \/ \E p \in Proc : ReadStats(p)
    \/ \E p \in Proc : CommitBatch(p)
    \/ \E p \in Proc : CbReadStats(p)
    \/ \E p \in Proc : CbReadBaseline(p)
    \/ \E p \in Proc : CbWrite(p)
    \/ \E p \in Proc : CbMonitor(p)
    \/ \E p \in Proc : UmRead(p)
    \/ \E p \in Proc : UmMonitor(p)
    \/ \E p \in Proc : ReadNextRowId(p)
    \/ \E p \in Proc : CommitInteraction(p)
    \/ \E p \in Proc : LcbRead(p)
    \/ \E p \in Proc : LcbWrite(p)
    \/ \E p \in Proc : LcbMonitor(p)
    \/ \E p \in Proc : CdtRead(p)
    \/ \E p \in Proc : CdtUpdate(p)

SpecConc == InitConc /\ [][NextConc]_vars

\* =========================================================================
\* Statistical battery of InputDataDriftMonitor
\* (app/services/feature_monitoring/data_drift.py) and the regression checks
\* of PredictionOutputMonitor
\* (app/services/prediction_monitoring/prediction_drift.py).
\*
\* A numeric column is given by what the tests read from its two series:
\* base_n and curr_n, the numbers of non-missing values; mean, median and
\* variance, each a pair <<curr, base>>; ks, what ks_2samp does ("raises",
\* "p_below": p_value < ks_pvalue_threshold, "p_not_below"); psi, what
\* _compute_psi returns ("none": no value, else the severity).
\* Thresholds are in percent.
\* =========================================================================

DRIFT_MEAN_THRESHOLD_PCT == 10
DRIFT_MEDIAN_THRESHOLD_PCT == 10
DRIFT_VARIANCE_THRESHOLD_PCT == 20

\* the None a relative change comes back as
SkipChange == [skip |-> TRUE, num |-> 0, den |-> 1]

\* the quotient taken whatever the baseline value
RelativeChange_NoZeroCheck(curr, base) ==
    [skip |-> FALSE, num |-> Abs(curr - base), den |-> Abs(base)]

\* InputDataDriftMonitor._relative_change: the quotient num / den
RelativeChange(curr, base) ==
    IF base = 0 THEN SkipChange
    ELSE [skip |-> FALSE, num |-> Abs(curr - base), den |-> Abs(base)]

\* PredictionOutputMonitor._relative_change
PredRelativeChange(curr, base) ==
    IF base = 0 THEN SkipChange
    ELSE [skip |-> FALSE, num |-> Abs(curr - base), den |-> Abs(base)]

\* rc > threshold for a quotient rc and a threshold in percent
Exceeds(rc, threshold_pct) == rc.num * 100 > threshold_pct * rc.den

\* the entry a shift test leaves in tests: none when the change is None
ShiftTest(name, rc, threshold_pct) ==
    IF rc.skip THEN {}
    ELSE {[name |-> name, drift_detected |-> Exceeds(rc, threshold_pct)]}

\* a column is tested when both series hold min_samples non-missing values
Eligible(col, min_samples) ==
    ~(col.base_n < min_samples \/ col.curr_n < min_samples)

B2N(b) == IF b THEN 1 ELSE 0

\* the five tests of _run_tests_for_column on a column with enough samples:
\* the tests that have a result, and alerts_count, incremented by each test
\* that fired; the psi entry carries a severity and fires when it is high
ColumnTests(col) ==
    LET mean_rc == RelativeChange(col.mean[1], col.mean[2])
        med_rc == RelativeChange(col.median[1], col.median[2])
        var_rc == RelativeChange(col.variance[1], col.variance[2])
        tests ==
            ShiftTest("mean_shift", mean_rc, DRIFT_MEAN_THRESHOLD_PCT)
            \cup ShiftTest("median_shift", med_rc, DRIFT_MEDIAN_THRESHOLD_PCT)
            \cup ShiftTest("variance_shift", var_rc, DRIFT_VARIANCE_THRESHOLD_PCT)
            \cup (IF col.ks = "raises" THEN {}
                  ELSE {[name |-> "ks_test", drift_detected |-> col.ks = "p_below"]})
            \cup (IF col.psi = "none" THEN {}
                  ELSE {[name |-> "psi", severity |-> col.psi]})
    IN  [skipped |-> FALSE, tests |-> tests,
         alerts_count |->
             B2N(~mean_rc.skip /\ Exceeds(mean_rc, DRIFT_MEAN_THRESHOLD_PCT))
             + B2N(~med_rc.skip /\ Exceeds(med_rc, DRIFT_MEDIAN_THRESHOLD_PCT))
             + B2N(~var_rc.skip /\ Exceeds(var_rc, DRIFT_VARIANCE_THRESHOLD_PCT))
             + B2N(col.ks = "p_below")
             + B2N(col.psi = "high")]

\* the sample-size test left out
RunTestsForColumn_NoMinSamples(col, min_samples) == ColumnTests(col)

\* _run_tests_for_column: (None, 0) for a column with too few samples
RunTestsForColumn(col, min_samples) ==
    IF ~Eligible(col, min_samples)
    THEN [skipped |-> TRUE, tests |-> {}, alerts_count |-> 0]
    ELSE ColumnTests(col)

\* an alert only above the threshold
Alerted_Strict(alert_signals, alert_threshold) == alert_signals > alert_threshold

\* `if alert_signals >= self.alert_threshold`
Alerted(alert_signals, alert_threshold) == alert_signals >= alert_threshold

\* InputDataDriftMonitor.run up to store_results: the snapshot for the numeric
\* columns cols (a sequence, the column's name being its index)
Snapshot(cols, cfg) ==
    LET res == [i \in 1..Len(cols) |-> RunTestsForColumn(cols[i], cfg.min_samples)]
        tested == {i \in 1..Len(cols) : res[i].tests # {}}
        alerted_features ==
            {i \in tested : Alerted(res[i].alerts_count, cfg.alert_threshold)}
    IN  [feature_stats |-> [i \in 1..Len(cols) |->
                               [baseline |-> cols[i].base_n, current |-> cols[i].curr_n]],
         drift_tests |-> [i \in tested |-> res[i].tests],
         alerts |-> alerted_features,
         overall_drift |-> alerted_features # {},
         drift_score |-> IF Len(cols) > 0
                         THEN [num |-> Cardinality(alerted_features), den |-> Len(cols)]
                         ELSE [num |-> 0, den |-> 1]]

\* load_config: the stored configuration, the defaults when there is none
LoadConfig(d) ==
    IF d.FeatureDriftConfig = <<>>
    THEN DriftConfigRow(DRIFT_MIN_SAMPLES, DRIFT_ALERT_THRESHOLD)
    ELSE d.FeatureDriftConfig[1]

\* create_fallback_message: the template filled with the alert count, the
\* drift score and the two windows
CreateFallbackMessage(snapshot, baseline_window, current_window) ==
    [template |-> "fallback", alert_count |-> Cardinality(snapshot.alerts),
     drift_score |-> snapshot.drift_score,
     baseline_window |-> baseline_window, current_window |-> current_window]

\* the failure of the narrative service let through to store_results, which
\* stores no interpretation
InterpretDataDrift_Raises(snapshot, baseline_window, current_window, outcome) ==
    IF outcome = "ok" THEN [template |-> "llm"] ELSE [template |-> "none"]

\* interpret_data_drift: outcome is what the narrative service does: "ok",
\* "no_client" (get_drift_llm_client raises) or "call_raises" (chain.invoke
\* raises); the text of the service is not modelled
InterpretDataDrift(snapshot, baseline_window, current_window, outcome) ==
    IF outcome = "ok" THEN [template |-> "llm"]
    ELSE CreateFallbackMessage(snapshot, baseline_window, current_window)

\* store_results: the FeatureDrift row inserted for a snapshot
StoreResults(d, snapshot, baseline_window, current_window, outcome) ==
    [d EXCEPT !.FeatureDrift = Append(@,
        [baseline_window |-> baseline_window, current_window |-> current_window,
         feature_stats |-> snapshot.feature_stats,
         drift_tests |-> snapshot.drift_tests,
         alerts |-> snapshot.alerts,
         overall_drift |-> snapshot.overall_drift,
         drift_score |-> snapshot.drift_score,
         llm_interpretation |-> InterpretDataDrift(snapshot, baseline_window,
                                                   current_window, outcome)])]

\* PredictionOutputMonitor.monitor_regression on the column pred: the keys
\* set in results and whether regression_output_drift is alerted; returns
\* early for too few samples, and raises when ks_2samp does.  Of the
\* quantiles only 0.5, the median, is represented.
MonitorRegression(col, min_samples) ==
    IF col.base_n < min_samples \/ col.curr_n < min_samples
    THEN [raised |-> FALSE, results |-> {}, alerts |-> {}]
    ELSE IF col.ks = "raises" \/ col.psi = "none"
    THEN [raised |-> TRUE, results |-> {}, alerts |-> {}]
    ELSE LET rc_mean == PredRelativeChange(col.mean[1], col.mean[2])
             rc_median == PredRelativeChange(col.median[1], col.median[2])
             rc_var == PredRelativeChange(col.variance[1], col.variance[2])
             results ==
                 (IF ~rc_mean.skip /\ Exceeds(rc_mean, DRIFT_MEAN_THRESHOLD_PCT)
                  THEN {"mean_drift"} ELSE {})
                 \cup (IF ~rc_median.skip /\ Exceeds(rc_median, DRIFT_MEDIAN_THRESHOLD_PCT)
                       THEN {"median_drift"} ELSE {})
                 \cup (IF ~rc_var.skip /\ Exceeds(rc_var, DRIFT_VARIANCE_THRESHOLD_PCT)
                       THEN {"variance_drift"} ELSE {})
                 \cup (IF ~rc_median.skip /\ Exceeds(rc_median, DRIFT_VARIANCE_THRESHOLD_PCT)
                       THEN {"quantile_drift"} ELSE {})
                 \cup {"ks_test", "psi"}
             signal_count ==
                 B2N("mean_drift" \in results) + B2N("median_drift" \in results)
                 + B2N("variance_drift" \in results) + B2N(col.psi = "high")
                 + B2N(col.ks = "p_below")
         IN  [raised |-> FALSE, results |-> results,
              alerts |-> IF signal_count >= 2 THEN {"regression_output_drift"} ELSE {}]

\* ---- the monitors applied to drawn columns

SampleCounts == (StoredMinSamples - 1)..StoredMinSamples
MeanPairs == {<<1, 0>>, <<11, 10>>, <<3, 2>>}
MedianPairs == {<<1, 0>>, <<2, 2>>, <<-3, -2>>}
VariancePairs == {<<1, 0>>, <<6, 5>>, <<3, 2>>}
KsOutcomes == {"raises", "p_below", "p_not_below"}
PsiOutcomes == {"none", "low", "medium", "high"}
NarrativeOutcomes == {"ok", "no_client", "call_raises"}
AlertThresholds == 1..MaxAlertThreshold

\* a baseline whose mean and variance are 0 is constant zero, on which
\* ks_2samp and _compute_psi both give a result
Feasible(col) ==
    (col.mean[2] = 0 /\ col.variance[2] = 0) =>
        (col.median[2] = 0 /\ col.ks # "raises" /\ col.psi # "none")

\* the first numeric column: every combination of what the tests read
FirstColumns ==
    {col \in [base_n : SampleCounts, curr_n : SampleCounts, mean : MeanPairs,
              median : MedianPairs, variance : VariancePairs, ks : KsOutcomes,
              psi : PsiOutcomes] : Feasible(col)}

\* a second numeric column: every sample count, with no test firing or all
SecondColumns ==
    [base_n : SampleCounts, curr_n : SampleCounts, mean : {<<2, 2>>},
     median : {<<2, 2>>}, variance : {<<2, 2>>}, ks : {"p_not_below"},
     psi : {"low"}]
    \cup [base_n : SampleCounts, curr_n : SampleCounts, mean : {<<3, 2>>},
          median : {<<3, 2>>}, variance : {<<3, 2>>}, ks : {"p_below"},
          psi : {"high"}]

\* the numeric columns of the two data frames: one column or two
ColumnInputs ==
    {<<c>> : c \in FirstColumns}
    \cup {<<c[1], c[2]>> : c \in FirstColumns \X SecondColumns}

\* InputDataDriftMonitor(...) constructed on drawn data, for a project whose
\* stored configuration holds the default thresholds
InitDrift ==
    /\ policy = "battery"
    /\ \E alert_threshold \in AlertThresholds :
           db = [EmptyDb EXCEPT !.FeatureDriftConfig =
                    <<DriftConfigRow(StoredMinSamples, alert_threshold)>>]
    /\ \E cols \in ColumnInputs :
           last = CallRecord("construct", 0, cols, db, db, FALSE)
    /\ procs = [p \in Proc |-> IdleProc]

\* InputDataDriftMonitor.run
RunDrift ==
    /\ policy = "battery"
    /\ last.op = "construct"
    /\ \E outcome \in NarrativeOutcomes :
        LET snapshot == Snapshot(last.seen, LoadConfig(db))
            d1 == StoreResults(db, snapshot, "unknown", "unknown", outcome)
        IN  /\ db' = d1
            /\ last' = [CallRecord("run", 0, last.seen, db, d1, snapshot.overall_drift)
                            EXCEPT !.detection = "done", !.narrative = outcome]
    /\ UNCHANGED <<policy, procs>>

\* PredictionOutputMonitor.monitor with task_type regression, the first
\* column being the predictions and min_samples the stored one
MonitorPredictions ==
    /\ policy = "battery"
    /\ last.op = "construct"
    /\ LET res == MonitorRegression(last.seen[1], LoadConfig(db).min_samples)
       IN  last' = [CallRecord("monitor", 0, last.seen, db, db, res)
                        EXCEPT !.raised = res.raised]
    /\ UNCHANGED <<policy, db, procs>>

NextDrift == RunDrift \/ MonitorPredictions

SpecDrift == InitDrift /\ [][NextDrift]_vars

\* =========================================================================
\* The window managers' own operations (create_baseline, get_monitor_data),
\* one call on the database of a project at some point of its life
\* =========================================================================

\* create_baseline of the sliding manager with the outcome of its baseline
\* insert given: insert_fails is whether the commit of the new FeatureBaseline
\* row raised.  After a failed insert the session is rolled back and the
\* baseline read again; with a row found the call returns True, without one
\* it re-raises, and the re-raised exception is caught by the method's outer
\* handler, which rolls back and returns False.
SlidingCreateBaselineOutcome(d, st, bi, insert_fails) ==
    IF st = <<>> THEN [db |-> d, ret |-> FALSE, raised |-> FALSE, insert |-> "none"]
    ELSE
    LET cfgTbl == SlidingConfig(d)
        d0 == [d EXCEPT !.FeatureConfig = cfgTbl]
        dec == SlidingBaselineDecision(st, cfgTbl[1], bi, RowAt(d.FeatureBaseline, bi))
        cb == SlidingCreateBaseline(d, st, bi)
    IN  IF dec.kind = "insert"
        THEN IF insert_fails
             THEN [db |-> d0, ret |-> d0.FeatureBaseline # <<>>, raised |-> FALSE,
                   insert |-> "failed"]
             ELSE [db |-> cb.db, ret |-> cb.ret, raised |-> FALSE, insert |-> "done"]
        ELSE [db |-> cb.db, ret |-> cb.ret, raised |-> FALSE, insert |-> "none"]

\* the orders in which a select without ORDER BY can return rows
Orderings(rows) ==
    {o \in [1..Len(rows) -> {rows[i] : i \in 1..Len(rows)}] :
        \A i, j \in 1..Len(rows) : i # j => o[i] # o[j]}

\* what get_monitor_data returns for the monitor row it read and the rows
\* the store returned, in the order it returned them
MonitorDataResult(monitor_info, feature_rows) ==
    [none |-> FALSE,
     feature_range |->
         IF feature_rows # <<>>
         THEN <<feature_rows[1], feature_rows[Len(feature_rows)]>>
         ELSE <<monitor_info.monitor_start_row_feature_input,
                monitor_info.monitor_end_row_feature_input>>,
     feature_data |-> feature_rows,
     total_rows |-> Len(feature_rows)]

\* the results get_monitor_data can return on the monitor table tbl (the
\* sliding manager's FeatureMonitorInfo, the anchored manager's MonitorInfo)
GetMonitorDataResults(d, tbl) ==
    IF d[tbl] = <<>> THEN {NoData}
    ELSE UNION {
           LET monitor_info == d[tbl][mi]
           IN  {MonitorDataResult(monitor_info, feature_rows) :
                  feature_rows \in Orderings(RowsBetween(d.FeatureInput,
                      monitor_info.monitor_start_row_feature_input,
                      monitor_info.monitor_end_row_feature_input))} :
           mi \in 1..Len(d[tbl])}

\* the database after a feature ingestion of n rows served on its own (the
\* drift reports it may store left out)
AfterIngest(d, n) ==
    LET d1 == FeatureCommit(d, "FeatureStats", d.FeatureStats,
                            MaxRowId(d.FeatureInput), n)
        cb == SlidingCreateBaseline(d1, d1.FeatureStats, Len(d1.FeatureBaseline))
    IN  IF cb.ret
        THEN SlidingUpdateMonitorWindow(cb.db, Len(cb.db.FeatureBaseline))
        ELSE cb.db

\* the same for the anchored manager's ingestion service
AnchoredAfterIngest(d, n) ==
    LET cb == AnchoredCreateBaseline(d, d.ProjectDataStats, Len(d.BaselineInfo))
    IN  FeatureCommit(cb.db, "ProjectDataStats", d.ProjectDataStats,
                      MaxRowId(d.FeatureInput), n)

RECURSIVE AfterIngests(_, _, _)
AfterIngests(pol, d, batches) ==
    IF batches = <<>> THEN d
    ELSE AfterIngests(pol,
                      IF pol = "sliding" THEN AfterIngest(d, Head(batches))
                                         ELSE AnchoredAfterIngest(d, Head(batches)),
                      Tail(batches))

\* the batch sizes of the ingestions a drawn project has served
BatchHistories == UNION {[1..k -> 1..MaxBatch] : k \in 0..MaxHistory}

\* sizes of a project's first batch: small ones and the ones around the
\* default baseline size
FirstBatchSizes ==
    (0..MaxBatch) \cup {DEFAULT_BASELINE_BATCH_SIZE - 1, DEFAULT_BASELINE_BATCH_SIZE}

\* a project whose first batches (nf feature rows, np prediction rows) are
\* committed and whose first create_baseline has not run; cfgTbl is its
\* FeatureConfig table, empty when no configuration was stored
FreshDb(cfgTbl, nf, np) ==
    LET d0 == [EmptyDb EXCEPT !.FeatureConfig = cfgTbl]
        d1 == IF np = 0 THEN d0
              ELSE PredictionCommit(d0, "FeatureStats", d0.FeatureStats, 0, np)
    IN  IF nf = 0 THEN d1
        ELSE FeatureCommit(d1, "FeatureStats", d1.FeatureStats, 0, nf)

\* the databases the operations are called on
ManagerDbs ==
    {AfterIngests(pol, InitDb(pol, b, m), batches) :
        pol \in {"sliding", "anchored"}, b \in BaselineSizes, m \in MonitorSizes,
        batches \in BatchHistories}
    \cup
    {FreshDb(cfgTbl, nf, np) :
        cfgTbl \in {<<>>} \cup {<<ConfigRow(b, m)>> : b \in BaselineSizes,
                                                      m \in MonitorSizes},
        nf \in FirstBatchSizes, np \in 0..MaxBatch}

InitManager ==
    /\ policy = "manager"
    /\ db \in ManagerDbs
    /\ last = CallRecord("none", 0, <<>>, db, db, FALSE)
    /\ procs = [p \in Proc |-> IdleProc]

\* BaselineManager.create_baseline (feature_monitoring) called once; bi = 0
\* next to a stored baseline is the select having run before another
\* request's insert
CreateBaselineCall ==
    /\ policy = "manager"
    /\ last.op = "none"
    /\ \E bi \in {0} \cup FirstIdx(db.FeatureBaseline), insert_fails \in BOOLEAN :
         LET cb == SlidingCreateBaselineOutcome(db, db.FeatureStats, bi, insert_fails)
         IN  /\ db' = cb.db
             /\ last' = [CallRecord("create_baseline", 0, db.FeatureStats, db,
                                    cb.db, cb.ret)
                            EXCEPT !.raised = cb.raised, !.insert = cb.insert]
    /\ UNCHANGED <<policy, procs>>

\* BaselineManager.get_monitor_data (feature_monitoring)
GetMonitorDataCall ==
    /\ policy = "manager"
    /\ last.op = "none"
    /\ \E result \in GetMonitorDataResults(db, "FeatureMonitorInfo") :
         last' = CallRecord("get_monitor_data", 0, db.FeatureMonitorInfo, db, db,
                            result)
    /\ UNCHANGED <<policy, db, procs>>

\* BaselineManager.get_monitor_data (app/services/baseline_manager.py)
AnchoredGetMonitorDataCall ==
    /\ policy = "manager"
    /\ last.op = "none"
    /\ \E result \in GetMonitorDataResults(db, "MonitorInfo") :
         last' = CallRecord("get_monitor_data", 0, db.MonitorInfo, db, db, result)
    /\ UNCHANGED <<policy, db, procs>>

NextManager ==
    \/ CreateBaselineCall
    \/ GetMonitorDataCall
    \/ AnchoredGetMonitorDataCall

SpecManager == InitManager /\ [][NextManager]_vars

\* =========================================================================
\* PredictionOutputMonitor.monitor
\* (app/services/prediction_monitoring/prediction_drift.py) applied to drawn
\* predictions, in regression and in classification mode
\* =========================================================================

PRED_MIN_SAMPLES == 50
PRED_KS_THRESHOLD_PCT == 10
PSI_LOW_MILLI == 100
PSI_HIGH_MILLI == 250

\* the keys of self.results after __init__
InitialResultKeys ==
    {"mean_drift", "median_drift", "variance_drift", "quantile_drift",
     "ks_test", "psi", "alerts", "overall_drift"}

\* ks_stat > self.ks_threshold, the statistic in percent
KsDrift(ks_stat_pct) == ks_stat_pct > PRED_KS_THRESHOLD_PCT

\* the severity the PSI value (in thousandths) is given
PsiSeverity(psi_milli) ==
    IF psi_milli < PSI_LOW_MILLI THEN "low"
    ELSE IF psi_milli < PSI_HIGH_MILLI THEN "medium"
    ELSE "high"

\* what monitor_regression reads of the predictions pred
AsColumn(pred) ==
    [base_n |-> pred.base_n, curr_n |-> pred.curr_n, mean |-> pred.mean,
     median |-> pred.median, variance |-> pred.variance,
     ks |-> IF KsDrift(pred.ks_stat_pct) THEN "p_below" ELSE "p_not_below",
     psi |-> PsiSeverity(pred.psi_milli)]

\* the classes of the baseline whose share moved by more than mean_threshold;
\* class_ratios holds, per class of the baseline, the pair <<current share,
\* baseline share>> in percent
ClassDrift(class_ratios) ==
    {cls \in 1..Len(class_ratios) :
        LET rc == PredRelativeChange(class_ratios[cls][1], class_ratios[cls][2])
        IN  ~rc.skip /\ Exceeds(rc, DRIFT_MEAN_THRESHOLD_PCT)}

\* classification alerted on a single signal
MonitorClassification_AnySignal(pred, min_samples) ==
    IF pred.base_n < min_samples \/ pred.curr_n < min_samples
    THEN [raised |-> FALSE, results |-> {}, alerts |-> {}]
    ELSE LET results ==
                 (IF ClassDrift(pred.class_ratios) # {}
                  THEN {"class_ratio_drift"} ELSE {})
                 \cup {"ks_test", "psi"}
             ks_drift == IF pred.label_encoding = "fails" THEN FALSE
                         ELSE KsDrift(pred.ks_stat_pct)
             signal_count ==
                 B2N("class_ratio_drift" \in results)
                 + B2N(PsiSeverity(pred.psi_milli) = "high")
                 + B2N(ks_drift)
         IN  [raised |-> FALSE, results |-> results,
              alerts |-> IF signal_count >= 1 THEN {"classification_output_drift"}
                         ELSE {}]

\* PredictionOutputMonitor.monitor_classification: the keys set in results
\* and whether classification_output_drift is alerted; label_encoding is
\* whether astype(int) raised, in which case ks_test is stored with drift False
MonitorClassification(pred, min_samples) ==
    IF pred.base_n < min_samples \/ pred.curr_n < min_samples
    THEN [raised |-> FALSE, results |-> {}, alerts |-> {}]
    ELSE LET results ==
                 (IF ClassDrift(pred.class_ratios) # {}
                  THEN {"class_ratio_drift"} ELSE {})
                 \cup {"ks_test", "psi"}
             ks_drift == IF pred.label_encoding = "fails" THEN FALSE
                         ELSE KsDrift(pred.ks_stat_pct)
             signal_count ==
                 B2N("class_ratio_drift" \in results)
                 + B2N(PsiSeverity(pred.psi_milli) = "high")
                 + B2N(ks_drift)
         IN  [raised |-> FALSE, results |-> results,
              alerts |-> IF signal_count >= 2 THEN {"classification_output_drift"}
                         ELSE {}]

\* the report with the min_samples gate left out
Monitor_NoGate(pred, min_samples) ==
    LET res == CASE pred.task_type = "regression" ->
                        MonitorRegression(AsColumn(pred), 0)
                 [] pred.task_type = "classification" ->
                        MonitorClassification(pred, 0)
                 [] OTHER -> [raised |-> TRUE, results |-> {}, alerts |-> {}]
    IN  [raised |-> res.raised, results |-> res.results, alerts |-> res.alerts,
         overall_drift |-> res.alerts # {},
         keys |-> InitialResultKeys \cup res.results]

\* PredictionOutputMonitor.monitor: the report returned, its keys, and
\* whether the call raised (a task_type that is neither of the two)
Monitor(pred, min_samples) ==
    LET res == CASE pred.task_type = "regression" ->
                        MonitorRegression(AsColumn(pred), min_samples)
                 [] pred.task_type = "classification" ->
                        MonitorClassification(pred, min_samples)
                 [] OTHER -> [raised |-> TRUE, results |-> {}, alerts |-> {}]
    IN  [raised |-> res.raised, results |-> res.results, alerts |-> res.alerts,
         overall_drift |-> res.alerts # {},
         keys |-> InitialResultKeys \cup res.results]

\* ---- the predictions drawn

PredSampleCounts == (PRED_MIN_SAMPLES - 1)..PRED_MIN_SAMPLES
KsStatistics == {PRED_KS_THRESHOLD_PCT - 5, PRED_KS_THRESHOLD_PCT, PRED_KS_THRESHOLD_PCT + 5}
PsiValues == {PSI_LOW_MILLI - 50, PSI_LOW_MILLI, PSI_HIGH_MILLI - 1, PSI_HIGH_MILLI}
ClassRatios ==
    {<<<<50, 50>>, <<50, 50>>>>, <<<<52, 50>>, <<48, 50>>>>,
     <<<<55, 50>>, <<45, 50>>>>, <<<<60, 50>>, <<40, 50>>>>,
     <<<<0, 30>>, <<100, 70>>>>}

PredictionInputs ==
    [task_type : {"regression"}, base_n : PredSampleCounts,
     curr_n : PredSampleCounts, mean : MeanPairs, median : MedianPairs,
     variance : VariancePairs, ks_stat_pct : KsStatistics, psi_milli : PsiValues]
    \cup [task_type : {"classification"}, base_n : PredSampleCounts,
          curr_n : PredSampleCounts, class_ratios : ClassRatios,
          label_encoding : {"ok", "fails"}, ks_stat_pct : KsStatistics,
          psi_milli : PsiValues]
    \cup [task_type : {"ranking"}, base_n : PredSampleCounts,
          curr_n : PredSampleCounts]

\* PredictionOutputMonitor(...) constructed on drawn predictions with the
\* default thresholds
InitPredictions ==
    /\ policy = "predictions"
    /\ db = EmptyDb
    /\ \E pred \in PredictionInputs :
           last = CallRecord("construct", 0, <<pred>>, db, db, FALSE)
    /\ procs = [p \in Proc |-> IdleProc]

\* PredictionOutputMonitor.monitor
MonitorCall ==
    /\ policy = "predictions"
    /\ last.op = "construct"
    /\ LET res == Monitor(last.seen[1], PRED_MIN_SAMPLES)
       IN  last' = [CallRecord("monitor", 0, last.seen, db, db, res)
                        EXCEPT !.raised = res.raised]
    /\ UNCHANGED <<policy, db, procs>>

NextPredictions == MonitorCall

SpecPredictions == InitPredictions /\ [][NextPredictions]_vars

\* =========================================================================
\* The background quality check IngestionService.ingest schedules before it
\* returns (run_quality_check_background): one task per request, run by the
\* event loop next to the tasks of other requests
\* =========================================================================

MAX_RETRIES == 3

RECURSIVE Pow2(_)
Pow2(k) == IF k = 0 THEN 1 ELSE 2 * Pow2(k - 1)

\* the same wait after every failure
Backoff_Constant(retry_count) == 2

\* asyncio.sleep(2 ** retry_count)
Backoff(retry_count) == Pow2(retry_count)

\* a FeatureQualityCheck row; task names the request whose check wrote it
QualityRow(task, check_status) == [task |-> task, check_status |-> check_status]

\* a request that has not reached the end of ingest
NoTask ==
    [pc |-> "idle", rows_ingested |-> 0, retry_count |-> 0, attempts |-> 0,
     slept |-> <<>>, store |-> "none"]

InitQuality ==
    /\ policy = "quality"
    /\ db = EmptyDb
    /\ last = CallRecord("none", 0, <<>>, db, db, FALSE)
    /\ procs = [p \in Proc |-> NoTask]

\* the end of ingest for a batch of n rows: the task is created and the
\* handler returns {"rows_ingested": n} without awaiting it
ScheduleQualityCheck(p, n) ==
    /\ policy = "quality"
    /\ procs[p].pc = "idle"
    /\ procs' = [procs EXCEPT ![p] = [NoTask EXCEPT !.pc = "attempt",
                                                     !.rows_ingested = n]]
    /\ last' = CallRecord("ingest", n, <<>>, db, db, n)
    /\ UNCHANGED <<policy, db>>

\* one pass of the while loop: the checks and the commit of the completed
\* row succeed (succeeds), or something in the try block raises; after the
\* last failure the failed row is stored unless that raises too (store_fails)
QualityAttempt(p, succeeds, store_fails) ==
    /\ policy = "quality"
    /\ procs[p].pc = "attempt"
    /\ procs[p].retry_count < MAX_RETRIES
    /\ LET retry_count == procs[p].retry_count + 1
       IN  IF succeeds
           THEN /\ db' = [db EXCEPT !.FeatureQualityCheck =
                             Append(@, QualityRow(p, "completed"))]
                /\ procs' = [procs EXCEPT ![p].pc = "done",
                                          ![p].attempts = @ + 1]
           ELSE IF retry_count < MAX_RETRIES
           THEN /\ db' = db
                /\ procs' = [procs EXCEPT
                      ![p].pc = "sleep",
                      ![p].retry_count = retry_count,
                      ![p].attempts = @ + 1,
                      ![p].slept = Append(@, Backoff(retry_count))]
           ELSE /\ db' = IF store_fails THEN db
                         ELSE [db EXCEPT !.FeatureQualityCheck =
                                  Append(@, QualityRow(p, "failed"))]
                /\ procs' = [procs EXCEPT
                      ![p].pc = "done",
                      ![p].retry_count = retry_count,
                      ![p].attempts = @ + 1,
                      ![p].store = IF store_fails THEN "raised" ELSE "stored"]
    /\ UNCHANGED <<policy, last>>

\* asyncio.sleep returns and the loop goes round
QualityWake(p) ==
    /\ policy = "quality"
    /\ procs[p].pc = "sleep"
    /\ procs' = [procs EXCEPT ![p].pc = "attempt"]
    /\ UNCHANGED <<policy, db, last>>

NextQuality ==
    \/ \E p \in Proc, n \in 1..MaxBatch : ScheduleQualityCheck(p, n)
    \/ \E p \in Proc, succeeds, store_fails \in BOOLEAN :
           QualityAttempt(p, succeeds, store_fails)
    \/ \E p \in Proc : QualityWake(p)

\* the event loop runs every task that is ready: an attempt that can be made
\* is made, a sleep that has elapsed returns
SpecQuality ==
    /\ InitQuality
    /\ [][NextQuality]_vars
    /\ \A p \in Proc :
           /\ WF_vars(\E succeeds, store_fails \in BOOLEAN :
                          QualityAttempt(p, succeeds, store_fails))
           /\ WF_vars(QualityWake(p))

\* =========================================================================
\* Properties
\* =========================================================================

\* the configured sizes of the running manager
CurrentConfig ==
    CASE policy = "sliding" -> db.FeatureConfig[1]
      [] policy = "anchored" -> db.ProjectConfig[1]
      [] policy = "llm" -> db.LLMConfig[1]

Rows(tbl) == {tbl[i] : i \in 1..Len(tbl)}

\* C1: sliding-baseline feature manager, feature ingestions only: whenever a
\* FeatureBaseline row and a FeatureMonitorInfo row exist, the monitor start
\* row is strictly greater than the feature baseline end row.
C1_MonitorAfterBaseline ==
    (policy = "sliding" /\ db.PredictionOutput = <<>>) =>
        \A b \in Rows(db.FeatureBaseline), m \in Rows(db.FeatureMonitorInfo) :
            m.monitor_start_row_feature_input > b.baseline_end_row_feature_input

\* no request is in flight: every started request has returned
Quiescent == \A p \in Proc : procs[p].pc = "idle"

C3_AtMostOneBaseline ==
    policy = "sliding" => Len(db.FeatureBaseline) <= 1

\* C4: for each record kind, after any set of ingestion calls, overlapping
\* ones included, the stored row_ids are pairwise distinct and are exactly
\* 1..n for n stored rows.
C4_RowIdsGapFree ==
    Quiescent =>
        \A tbl \in {db.FeatureInput, db.PredictionOutput, RowIds(db.LLMMonitor)} :
            /\ Rows(tbl) = 1..Len(tbl)
            /\ \A i, j \in 1..Len(tbl) : i # j => tbl[i] # tbl[j]

\* C5 as stated: every stored range of a sliding baseline, feature and
\* prediction alike, spans exactly baseline_batch_size rows.
C5_EveryRangeSpansBatch ==
    policy = "sliding" =>
        \A b \in Rows(db.FeatureBaseline) :
            /\ b.baseline_end_row_feature_input - b.baseline_start_row_feature_input + 1
                   = CurrentConfig.baseline_batch_size
            /\ b.baseline_end_row_prediction_output
                   - b.baseline_start_row_prediction_output + 1
                   = CurrentConfig.baseline_batch_size

\* a stored range is the unpopulated pair (0, 0) or spans size rows
EmptyOrSpans(start, end, size) ==
    \/ start = 0 /\ end = 0
    \/ start >= 1 /\ end - start + 1 = size

\* C5 amended: every stored range of a sliding baseline is either the
\* unpopulated pair start = end = 0 (a kind that had fewer than
\* baseline_batch_size rows) or spans exactly baseline_batch_size rows, and
\* at least one of the two ranges is populated.
C5_PopulatedRangeSpansBatch ==
    policy = "sliding" =>
        \A b \in Rows(db.FeatureBaseline) :
            /\ EmptyOrSpans(b.baseline_start_row_feature_input,
                            b.baseline_end_row_feature_input,
                            CurrentConfig.baseline_batch_size)
            /\ EmptyOrSpans(b.baseline_start_row_prediction_output,
                            b.baseline_end_row_prediction_output,
                            CurrentConfig.baseline_batch_size)
            /\ \/ b.baseline_end_row_feature_input > 0
               \/ b.baseline_end_row_prediction_output > 0

\* a sliding baseline that has slid forward and holds both ranges
C5_Witness ==
    /\ policy = "sliding"
    /\ \E b \in Rows(db.FeatureBaseline) :
          /\ b.baseline_start_row_feature_input > 1
          /\ b.baseline_start_row_prediction_output > 1

RangeMovesForward(s, e, s2, e2) ==
    /\ \/ s2 = s /\ e2 = e
       \/ s2 = e + 1 /\ e2 > e
    /\ s2 <= e2

BaselineTable(d) ==
    CASE policy = "sliding" -> d.FeatureBaseline
      [] policy = "anchored" -> d.BaselineInfo
      [] policy = "llm" -> d.LLMBaseline

\* some row count the manager's creation gate looks at has reached size in d
RowCountReached(d, size) ==
    IF policy = "llm" THEN Len(d.LLMMonitor) >= size
    ELSE Len(d.FeatureInput) >= size \/ Len(d.PredictionOutput) >= size

\* C8: creation gate of the sliding, the anchored and the LLM manager: a
\* baseline row exists only if a relevant committed row count has reached
\* baseline_batch_size, and a create_baseline call that inserts the baseline
\* ran on a database whose committed row count had reached it.
C8_CreationGate ==
    /\ BaselineTable(db) # <<>>
           => RowCountReached(db, CurrentConfig.baseline_batch_size)
    /\ (BaselineTable(last.pre) = <<>> /\ BaselineTable(last.post) # <<>>)
           => RowCountReached(last.pre, CurrentConfig.baseline_batch_size)

\* a create_baseline call of the anchored manager has just inserted a
\* baseline for a project whose features are still below the batch size
C8_Witness ==
    /\ policy = "anchored"
    /\ BaselineTable(last.pre) = <<>>
    /\ BaselineTable(last.post) # <<>>
    /\ Len(last.pre.FeatureInput) < CurrentConfig.baseline_batch_size

\* the effect expected of a create_baseline call on one kind's range: latest
\* the kind's latest row index the call read, (s, e) the range before and
\* (s2, e2) after
SlidesWhenDue(latest, size, s, e, s2, e2) ==
    IF latest # None /\ latest >= e + size
    THEN s2 = latest - size + 1 /\ e2 = latest
    ELSE s2 = s /\ e2 = e

\* C9: sliding-baseline feature manager: a create_baseline call that finds a
\* baseline sets a kind's range to [latest - baseline_batch_size + 1, latest]
\* when that kind's latest row index is at least baseline_batch_size beyond
\* its baseline end, and leaves the range unchanged otherwise; for the
\* feature range and for the prediction range.
C9_EachKindSlides ==
    (policy = "sliding" /\ last.op # "none" /\ last.seen # <<>>
        /\ last.pre.FeatureBaseline # <<>>) =>
        \A i \in 1..Len(last.pre.FeatureBaseline) :
            LET a == last.pre.FeatureBaseline[i]
                b == last.post.FeatureBaseline[i]
                size == CurrentConfig.baseline_batch_size
            IN  /\ SlidesWhenDue(last.seen[1].latest_feature_end_row, size,
                                 a.baseline_start_row_feature_input,
                                 a.baseline_end_row_feature_input,
                                 b.baseline_start_row_feature_input,
                                 b.baseline_end_row_feature_input)
                /\ SlidesWhenDue(last.seen[1].latest_prediction_end_row, size,
                                 a.baseline_start_row_prediction_output,
                                 a.baseline_end_row_prediction_output,
                                 b.baseline_start_row_prediction_output,
                                 b.baseline_end_row_prediction_output)

\* C10: sliding-baseline feature manager: after a completed feature
\* ingestion with a baseline present and the latest feature row index beyond
\* the baseline end, the stored monitor window is
\* [max(baseline_end + 1, latest - monitor_batch_size + 1), latest].
C10_MonitorWindow ==
    (policy = "sliding" /\ last.op = "ingest") =>
        \A b \in Rows(db.FeatureBaseline) :
            LET latest == db.FeatureStats[1].latest_feature_end_row
                baseline_end == b.baseline_end_row_feature_input
                size == CurrentConfig.monitor_batch_size
            IN  latest > baseline_end =>
                    db.FeatureMonitorInfo =
                        <<MonitorRow(Max2(baseline_end + 1, latest - size + 1),
                                     latest)>>

\* a feature ingestion has just left a monitor window that starts right
\* after the baseline although fewer than monitor_batch_size rows follow it
C10_Witness ==
    /\ policy = "sliding"
    /\ last.op = "ingest"
    /\ \E b \in Rows(db.FeatureBaseline) :
          /\ b.baseline_end_row_feature_input >= CurrentConfig.baseline_batch_size
          /\ db.FeatureStats[1].latest_feature_end_row
                 > b.baseline_end_row_feature_input
          /\ db.FeatureStats[1].latest_feature_end_row
                 - CurrentConfig.monitor_batch_size + 1
                 < b.baseline_end_row_feature_input + 1
          /\ db.FeatureMonitorInfo # <<>>

\* C11: a feature ingestion stores a FeatureDrift report only if the
\* baseline window and the monitor window both hold at least min_samples
\* rows.
C11_ReportNeedsMinSamples ==
    policy = "sliding" =>
        \A r \in Rows(db.FeatureDrift) :
            /\ r.baseline_total_count >= MinSamples(db)
            /\ r.current_total_count >= MinSamples(db)

\* the rows of the batch the last call carried are stored
BatchPersisted ==
    CASE last.op = "ingest" ->
             /\ Len(db.FeatureInput) = Len(last.pre.FeatureInput)
             /\ Len(db.FeatureInput) >= last.n
      [] last.op = "ingest_predictions" ->
             Len(db.PredictionOutput) = Len(last.pre.PredictionOutput) + last.n
      [] OTHER -> TRUE

\* C12: when the drift detection run an ingestion call triggers raises, the
\* rows of the batch stay stored and the call itself does not fail, for
\* ingest and for ingest_predictions.
C12_DetectionFailureKeepsBatch ==
    (policy = "sliding" /\ last.detection = "raised") =>
        (BatchPersisted /\ ~last.raised)

\* the report InputDataDriftMonitor.run has just stored, the columns it was
\* given and the configuration it loaded
DriftRun == policy = "battery" /\ last.op = "run"
Report == db.FeatureDrift[Len(db.FeatureDrift)]
Columns == last.seen
EligibleColumns == {i \in 1..Len(Columns) : Eligible(Columns[i], LoadConfig(db).min_samples)}

\* a shift test fired: the baseline value is not 0 and the relative change
\* is above the threshold
Fired(pair, threshold_pct) ==
    pair[2] # 0 /\ Abs(pair[1] - pair[2]) * 100 > threshold_pct * Abs(pair[2])

\* the number of fired signals of a column
FiredSignals(col) ==
    B2N(Fired(col.mean, DRIFT_MEAN_THRESHOLD_PCT))
    + B2N(Fired(col.median, DRIFT_MEDIAN_THRESHOLD_PCT))
    + B2N(Fired(col.variance, DRIFT_VARIANCE_THRESHOLD_PCT))
    + B2N(col.ks = "p_below") + B2N(col.psi = "high")

NumericFields(r) == <<r.feature_stats, r.drift_tests, r.alerts, r.overall_drift, r.drift_score>>

\* C13: when the narrative service fails (no client, or the call raises), the
\* report is stored all the same, its numeric fields are those stored when
\* the service answers, and its interpretation is the templated fallback
\* built from the alert count, the drift score and the two windows.
C13_FallbackOnNarrativeFailure ==
    (DriftRun /\ last.narrative \in {"no_client", "call_raises"}) =>
        /\ Len(db.FeatureDrift) = Len(last.pre.FeatureDrift) + 1
        /\ LET ok == StoreResults(last.pre, Snapshot(Columns, LoadConfig(last.pre)),
                                  "unknown", "unknown", "ok").FeatureDrift
           IN  NumericFields(Report) = NumericFields(ok[Len(ok)])
        /\ Report.llm_interpretation =
               [template |-> "fallback", alert_count |-> Cardinality(Report.alerts),
                drift_score |-> Report.drift_score,
                baseline_window |-> Report.baseline_window,
                current_window |-> Report.current_window]

C13_Witness ==
    /\ DriftRun
    /\ last.narrative = "call_raises"
    /\ Report.alerts # {}
    /\ Report.llm_interpretation.template = "fallback"

\* C14: an eligible numeric column is in alerts exactly when the number of
\* its fired signals (mean, median, variance shift above its threshold, KS
\* p_value below its threshold, PSI severity high) is at least
\* alert_threshold; a test with no result and a PSI severity of low or medium
\* are not fired.
C14_AlertRule ==
    DriftRun =>
        \A i \in EligibleColumns :
            i \in Report.alerts <=>
                FiredSignals(Columns[i]) >= LoadConfig(db).alert_threshold

C14_Witness ==
    /\ DriftRun
    /\ 1 \in EligibleColumns
    /\ Columns[1].psi = "medium"
    /\ Columns[1].ks = "raises"
    /\ FiredSignals(Columns[1]) = LoadConfig(db).alert_threshold
    /\ 1 \in Report.alerts

\* C15: drift_score is the number of alerted columns divided by the number
\* of eligible numeric columns.
C15_ScoreOverEligibleColumns ==
    (DriftRun /\ EligibleColumns # {}) =>
        Report.drift_score.num * Cardinality(EligibleColumns)
            = Cardinality(Report.alerts) * Report.drift_score.den

\* C16: alerts is a subset of the keys of drift_tests, which are eligible
\* columns; of two numeric columns with one eligible, drift_tests has exactly
\* one key; feature_stats has an entry for every numeric column.
C16_OnlyEligibleColumnsTested ==
    DriftRun =>
        /\ Report.alerts \subseteq DOMAIN Report.drift_tests
        /\ DOMAIN Report.drift_tests \subseteq EligibleColumns
        /\ (Len(Columns) = 2 /\ Cardinality(EligibleColumns) = 1) =>
               Cardinality(DOMAIN Report.drift_tests) = 1
        /\ DOMAIN Report.feature_stats = 1..Len(Columns)

C16_Witness ==
    /\ DriftRun
    /\ Len(Columns) = 2
    /\ EligibleColumns = {1}
    /\ FiredSignals(Columns[2]) >= LoadConfig(db).alert_threshold
    /\ DOMAIN Report.drift_tests = {1}
    /\ DOMAIN Report.feature_stats = {1, 2}

TestNames(tests) == {t.name : t \in tests}

\* the shift tests of a column whose baseline value is 0
ZeroBaseTests(col) ==
    (IF col.mean[2] = 0 THEN {"mean_shift"} ELSE {})
    \cup (IF col.median[2] = 0 THEN {"median_shift"} ELSE {})
    \cup (IF col.variance[2] = 0 THEN {"variance_shift"} ELSE {})

\* C17: with a baseline value of exactly 0 the relative change is None in
\* the feature and in the prediction variant, and nothing is raised; the
\* shift test is then absent from the column's results and is no signal.
C17_ZeroBaselineSkipped ==
    /\ DriftRun =>
           \A i \in EligibleColumns :
               /\ TestNames(Report.drift_tests[i]) \cap ZeroBaseTests(Columns[i]) = {}
               /\ (Columns[i].mean[2] = 0 /\ Columns[i].median[2] = 0
                   /\ Columns[i].variance[2] = 0
                   /\ B2N(Columns[i].ks = "p_below") + B2N(Columns[i].psi = "high")
                          < LoadConfig(db).alert_threshold)
                      => i \notin Report.alerts
    /\ (policy = "battery" /\ last.op = "monitor") =>
           /\ last.raised => (Columns[1].ks = "raises" \/ Columns[1].psi = "none")
           /\ Columns[1].mean[2] = 0 => "mean_drift" \notin last.ret.results
           /\ Columns[1].median[2] = 0 =>
                  last.ret.results \cap {"median_drift", "quantile_drift"} = {}
           /\ Columns[1].variance[2] = 0 => "variance_drift" \notin last.ret.results

C17_Witness ==
    /\ DriftRun
    /\ 1 \in EligibleColumns
    /\ Columns[1].mean = <<1, 0>>
    /\ Columns[1].variance = <<3, 2>>
    /\ TestNames(Report.drift_tests[1]) = {"median_shift", "variance_shift", "ks_test", "psi"}

\* a log_interaction call whose _check_drift_trigger ran detect_drift, the
\* window it ran on and the database it found
Evaluated == policy = "llm" /\ last.op = "log_interaction" /\ last.trigger.evaluated
EvaluatedWindow == last.trigger.window
WindowRecords(d) == RecordsBetween(d.LLMMonitor, EvaluatedWindow[1], EvaluatedWindow[2])

Tagged(r) == "has_drift" \in DOMAIN r /\ r.has_drift

LLMBaselineEnd(d) ==
    IF d.LLMBaseline = <<>> THEN 0 ELSE d.LLMBaseline[1].baseline_end_row

C28_TrueIffBaselineExists ==
    (policy = "sliding" /\ last.op \in {"ingest", "ingest_predictions"}) =>
        (last.ret <=> last.post.FeatureBaseline # <<>>)

\* C30: the create_baseline of an ingest_predictions call sees the prediction
\* statistics of that call: when the call returns with at least
\* baseline_batch_size prediction rows stored, a baseline with its prediction
\* range set exists.
C30_BaselineSeesOwnPredictions ==
    (/\ policy = "sliding"
     /\ last.op = "ingest_predictions"
     /\ ~last.raised
     /\ MaxRowId(db.PredictionOutput) >= CurrentConfig.baseline_batch_size) =>
        /\ db.FeatureBaseline # <<>>
        /\ \A i \in 1..Len(db.FeatureBaseline) :
               db.FeatureBaseline[i].baseline_end_row_prediction_output # None

\* a create_baseline of the sliding manager called on its own
CreateCalled == policy = "manager" /\ last.op = "create_baseline"

\* C22: when the baseline insert fails and the re-read finds a baseline,
\* create_baseline returns True and leaves the stored baseline as it was;
\* when the insert fails and the re-read finds none, the failure reaches the
\* caller as an error, not as the not-ready value.
C22_InsertConflictHandling ==
    (CreateCalled /\ last.insert = "failed") =>
        IF last.pre.FeatureBaseline # <<>>
        THEN last.ret /\ db.FeatureBaseline = last.pre.FeatureBaseline
        ELSE last.raised

\* C23: without a stored batch-size configuration create_baseline returns
\* False and creates or changes no baseline and no monitor window, however
\* many rows are stored.
C23_NotReadyWithoutConfig ==
    (CreateCalled /\ last.pre.FeatureConfig = <<>>) =>
        /\ ~last.ret
        /\ db.FeatureBaseline = last.pre.FeatureBaseline
        /\ db.FeatureMonitorInfo = last.pre.FeatureMonitorInfo

\* C26: with rows retrieved, get_monitor_data's feature_range is the
\* smallest and the largest retrieved row_id, inside the stored range, and
\* total_rows their number, whatever the order the rows come in; without
\* rows it is the stored range with total_rows = 0.
C26_ActualBoundsReported ==
    (policy = "manager" /\ last.op = "get_monitor_data" /\ ~last.ret.none) =>
        LET ids == {last.ret.feature_data[i] : i \in 1..Len(last.ret.feature_data)}
            stored == <<last.seen[1].monitor_start_row_feature_input,
                        last.seen[1].monitor_end_row_feature_input>>
            s == last.ret.feature_range[1]
            e == last.ret.feature_range[2]
        IN  IF ids # {}
            THEN /\ \A r \in ids : s <= r /\ r <= e
                 /\ s \in ids /\ e \in ids
                 /\ stored[1] <= s /\ s <= e /\ e <= stored[2]
                 /\ last.ret.total_rows = Cardinality(ids)
            ELSE /\ last.ret.feature_range = stored
                 /\ last.ret.total_rows = 0

\* a monitor() call that returned, and the predictions it ran on
PredMonitored == policy = "predictions" /\ last.op = "monitor" /\ ~last.raised
Pred == last.seen[1]
GatePassed == Pred.base_n >= PRED_MIN_SAMPLES /\ Pred.curr_n >= PRED_MIN_SAMPLES

\* the relative change of the pair <<current, baseline>> is above pct percent
Moved(pair, pct) ==
    pair[2] # 0 /\ Abs(pair[1] - pair[2]) * 100 > pct * Abs(pair[2])

\* the signals of the two modes
RegressionSignals ==
    B2N(Moved(Pred.mean, 10)) + B2N(Moved(Pred.median, 10))
    + B2N(Moved(Pred.variance, 20)) + B2N(Pred.psi_milli >= 250)
    + B2N(Pred.ks_stat_pct > 10)
ClassificationSignals ==
    B2N(\E cls \in 1..Len(Pred.class_ratios) : Moved(Pred.class_ratios[cls], 10))
    + B2N(Pred.psi_milli >= 250)
    + B2N(Pred.label_encoding = "ok" /\ Pred.ks_stat_pct > 10)

\* C24: once the min_samples gate has passed, regression mode alerts
\* regression_output_drift exactly when at least 2 of mean drift, median
\* drift, variance drift, PSI severity high and KS statistic > ks_threshold
\* fire (quantile drift is no signal); classification mode alerts
\* classification_output_drift exactly when at least 2 of class-ratio drift,
\* PSI severity high and KS drift fire, a failed label encoding being no KS
\* drift; overall_drift is true exactly when the alert list is non-empty.
C24_PredictionAlertRule ==
    PredMonitored =>
        /\ last.ret.overall_drift <=> last.ret.alerts # {}
        /\ (GatePassed /\ Pred.task_type = "regression") =>
               /\ "regression_output_drift" \in last.ret.alerts
                      <=> RegressionSignals >= 2
               /\ last.ret.alerts \subseteq {"regression_output_drift"}
        /\ (GatePassed /\ Pred.task_type = "classification") =>
               /\ "classification_output_drift" \in last.ret.alerts
                      <=> ClassificationSignals >= 2
               /\ last.ret.alerts \subseteq {"classification_output_drift"}

C24_Witness ==
    /\ PredMonitored
    /\ GatePassed
    /\ Pred.task_type = "classification"
    /\ Pred.label_encoding = "fails"
    /\ Pred.ks_stat_pct > 10
    /\ ClassificationSignals = 1
    /\ last.ret.alerts = {}
    /\ ~last.ret.overall_drift

C24_WitnessRegression ==
    /\ PredMonitored
    /\ GatePassed
    /\ Pred.task_type = "regression"
    /\ "quantile_drift" \in last.ret.results
    /\ RegressionSignals = 1
    /\ last.ret.alerts = {}

\* C25 as stated: below min_samples in either series monitor() runs no test,
\* leaves every per-test result empty, returns no alert and overall_drift
\* false, and the report has the keys of every report of a run that passed
\* the gate.
C25_GateSameKeys ==
    PredMonitored =>
        /\ ~GatePassed =>
               /\ last.ret.results = {}
               /\ last.ret.alerts = {}
               /\ ~last.ret.overall_drift
        /\ last.ret.keys = InitialResultKeys

\* C25, amended: below min_samples in either series monitor() runs no test,
\* leaves every per-test result empty, returns no alert and overall_drift
\* false; the report then has the eight keys set at construction, which every
\* report has, and a classification run that passed the gate and found
\* class-ratio drift has the further key class_ratio_drift.
C25_GateKeepsInitialReport ==
    PredMonitored =>
        /\ ~GatePassed =>
               /\ last.ret.results = {}
               /\ last.ret.alerts = {}
               /\ ~last.ret.overall_drift
               /\ last.ret.keys = InitialResultKeys
        /\ InitialResultKeys \subseteq last.ret.keys
        /\ last.ret.keys # InitialResultKeys <=>
               /\ GatePassed
               /\ Pred.task_type = "classification"
               /\ \E cls \in 1..Len(Pred.class_ratios) :
                      Moved(Pred.class_ratios[cls], 10)
        /\ last.ret.keys \subseteq InitialResultKeys \cup {"class_ratio_drift"}

C25_Witness ==
    /\ PredMonitored
    /\ Pred.task_type = "classification"
    /\ Pred.base_n >= PRED_MIN_SAMPLES
    /\ Pred.curr_n < PRED_MIN_SAMPLES
    /\ ClassificationSignals = 3
    /\ last.ret.alerts = {}
    /\ last.ret.keys = InitialResultKeys

\* the FeatureQualityCheck rows the check of request p has stored
QualityRows(p) == SelectSeq(db.FeatureQualityCheck, LAMBDA r : r.task = p)

\* the part of C27 about a loop under way: at most 3 attempts, a wait of 2
\* seconds after the first failure and of 4 after the second, no row before
\* the loop has ended, one completed row after the first success
QualityLoopBounded(p) ==
    /\ procs[p].attempts <= 3
    /\ procs[p].retry_count <= procs[p].attempts
    /\ procs[p].slept = SubSeq(<<2, 4>>, 1, Len(procs[p].slept))
    /\ procs[p].pc \in {"attempt", "sleep"} =>
           /\ QualityRows(p) = <<>>
           /\ procs[p].attempts = procs[p].retry_count
           /\ Len(procs[p].slept) = procs[p].retry_count
    /\ (procs[p].pc = "done" /\ procs[p].retry_count < 3) =>
           /\ QualityRows(p) = <<QualityRow(p, "completed")>>
           /\ procs[p].attempts = procs[p].retry_count + 1
           /\ Len(procs[p].slept) = procs[p].retry_count
    /\ (procs[p].pc = "done" /\ procs[p].retry_count = 3) =>
           /\ procs[p].attempts = 3
           /\ procs[p].slept = <<2, 4>>

\* the value ingest returned stays what it was
IngestResultKept ==
    [][\A p \in Proc :
          procs[p].pc # "idle" =>
              /\ procs'[p].rows_ingested = procs[p].rows_ingested
              /\ procs[p].rows_ingested \in 1..MaxBatch]_vars

\* every scheduled check ends
QualityCheckEnds ==
    \A p \in Proc : (procs[p].pc # "idle") ~> (procs[p].pc = "done")

\* C27 as stated: at most 3 attempts; the loop stops at the first success
\* with one completed row; it waits 2^k seconds after the k-th failure
\* (k = 1, 2); after the 3rd failure exactly one row with status failed is
\* stored; the loop always ends and the value ingest returned is not changed.
C27_ThreeAttemptsOneRecord ==
    /\ [](policy = "quality" =>
            \A p \in Proc :
                /\ QualityLoopBounded(p)
                /\ (procs[p].pc = "done" /\ procs[p].retry_count = 3) =>
                       QualityRows(p) = <<QualityRow(p, "failed")>>)
    /\ IngestResultKept
    /\ QualityCheckEnds

\* C27, amended: as stated, except that after the 3rd failure the row with
\* status failed is stored unless storing it raises as well, in which case
\* the check leaves no row; never more than one row per check.
C27_ThreeAttemptsAtMostOneRecord ==
    /\ [](policy = "quality" =>
            \A p \in Proc :
                /\ QualityLoopBounded(p)
                /\ Len(QualityRows(p)) <= 1
                /\ (procs[p].pc = "done" /\ procs[p].retry_count = 3) =>
                       QualityRows(p) = IF procs[p].store = "raised" THEN <<>>
                                        ELSE <<QualityRow(p, "failed")>>)
    /\ IngestResultKept
    /\ QualityCheckEnds

C27_Witness ==
    /\ policy = "quality"
    /\ procs[1].pc = "done"
    /\ procs[1].attempts = 3
    /\ procs[1].slept = <<2, 4>>
    /\ QualityRows(1) = <<QualityRow(1, "failed")>>
    /\ procs[2].pc = "done"
    /\ QualityRows(2) = <<QualityRow(2, "completed")>>
    /\ procs[2].slept = <<2>>

====
